---------------------------- MODULE Spec2Model ----------------------------
(***************************************************************************)
(* Family relationship graph: the path search of findRelationshipPath      *)
(* (adjacency construction followed by a breadth-first search) and the     *)
(* classification of a path by deriveComplexRelationship; the handlers of  *)
(* the App that edit the people and relationship lists and set the graph   *)
(* highlight; the RelationshipChainFinder with its delayed search.         *)
(*                                                                         *)
(* Strings that the code builds or inspects (names, relationship labels)   *)
(* are sequences of one-character strings, so that template literals are   *)
(* concatenations and label comparison is comparison of the text.  Ids,    *)
(* genders and relationship types are only compared for equality and are   *)
(* TLA+ strings.                                                           *)
(***************************************************************************)
EXTENDS Integers, Sequences, FiniteSets, TLC

VARIABLES
    people,          \* Person[]: the App's state, handed to every call
    relationships,   \* StoredRelationship[]: the App's state, handed to every call
    startPersonId,   \* argument
    endPersonId,     \* argument
    pc,              \* "start" | "loop" | "done": position in findRelationshipPath;
                     \* "classified": deriveComplexRelationship has returned;
                     \* "highlighted": handleHighlightPath has returned;
                     \* "threw": a call has raised a TypeError
    adj,             \* the local Map adj (person id -> list of entries)
    queue,           \* the local BFS queue of { personId, currentPath }
    visited,         \* the local Set visited
    result,          \* the returned value, once pc = "done"
    derived,         \* the value deriveComplexRelationship returned on result
    activeView,            \* App: "ManageFamily" | "FindChain"
    error,                 \* App: the error banner, a message or NoError
    highlightedPathInfo,   \* App: NoHighlight or the highlighted node and link ids
    editingPerson,         \* App: NoPerson or the person handed to the edit modal
    isEditModalOpen,       \* App: BOOLEAN
    reads,                 \* files handed to FileReader.readAsText, onload not yet run
    personAId,             \* RelationshipChainFinder: selected id, or ""
    personBId,             \* RelationshipChainFinder: selected id, or ""
    foundPath,             \* RelationshipChainFinder: Null or a path
    derivedRelationship,   \* RelationshipChainFinder: NoRelationship or a sentence
    isLoading,             \* RelationshipChainFinder: BOOLEAN
    chainError,            \* RelationshipChainFinder: its own error state
    timer                  \* the callback handed to setTimeout, not yet run

\* the state of one call of the search and the classifier
callVars == <<startPersonId, endPersonId, pc, adj, queue, visited, result, derived>>

\* the App's state besides people and relationships
appVars == <<activeView, error, highlightedPathInfo, editingPerson, isEditModalOpen, reads>>

\* the state of the mounted RelationshipChainFinder
finderVars == <<personAId, personBId, foundPath, derivedRelationship, isLoading, chainError,
                timer>>

vars == <<people, relationships, callVars, appVars, finderVars>>

-----------------------------------------------------------------------------
(* Bounds of the explored inputs *)

\* longest relationship list of the small snapshots
MaxRels == 2

\* most relationships deleted from the initial data
MaxDeleted == 2

\* longest path handed to the classifier without a search
MaxSegments == 4

\* most files being read at a time
MaxReads == 1

-----------------------------------------------------------------------------
(* Data *)

FATHER == "FATHER"
MOTHER == "MOTHER"
SPOUSE == "SPOUSE"
SIBLING == "SIBLING"

DirectRelationshipType == {FATHER, MOTHER, SPOUSE, SIBLING}

\* A Person: id, name, gender (birthDate and profilePicUrl are never read by
\* the search and are left out).
Person(id, name, gender) == [id |-> id, name |-> name, gender |-> gender]

StoredRelationship(id, fromPersonId, toPersonId, type) ==
    [id |-> id, fromPersonId |-> fromPersonId, toPersonId |-> toPersonId, type |-> type]

INITIAL_PEOPLE ==
    << Person("1", <<"J","o","h","n"," ","D","o","e">>, "male"),
       Person("2", <<"J","a","n","e"," ","S","m","i","t","h">>, "female"),
       Person("3", <<"M","i","k","e"," ","D","o","e">>, "male"),
       Person("4", <<"S","a","r","a","h"," ","D","o","e">>, "female"),
       Person("5", <<"R","o","b","e","r","t"," ","R","o","e">>, "male"),
       Person("6", <<"E","m","i","l","y"," ","P","o","e">>, "female"),
       Person("7", <<"C","h","r","i","s"," ","D","o","e">>, "male") >>

INITIAL_RELATIONSHIPS ==
    << StoredRelationship("r1", "1", "2", SPOUSE),
       StoredRelationship("r2", "1", "3", FATHER),
       StoredRelationship("r3", "1", "4", FATHER),
       StoredRelationship("r9", "1", "7", FATHER),
       StoredRelationship("r4", "2", "3", MOTHER),
       StoredRelationship("r5", "2", "4", MOTHER),
       StoredRelationship("r10", "2", "7", MOTHER),
       StoredRelationship("r6", "4", "5", SPOUSE),
       StoredRelationship("r7", "5", "6", FATHER),
       StoredRelationship("r8", "4", "6", MOTHER),
       StoredRelationship("s1", "3", "4", SIBLING),
       StoredRelationship("s2", "3", "7", SIBLING),
       StoredRelationship("s3", "4", "7", SIBLING) >>

\* Snapshots of the first kind: the initial data with some relationships
\* deleted (the others keep their order).
RECURSIVE WithoutIndices(_, _, _)
WithoutIndices(s, i, deleted) ==
    IF i > Len(s) THEN <<>>
    ELSE (IF i \in deleted THEN <<>> ELSE <<s[i]>>) \o WithoutIndices(s, i + 1, deleted)

InitialDataLists ==
    { WithoutIndices(INITIAL_RELATIONSHIPS, 1, deleted) :
        deleted \in { d \in SUBSET DOMAIN INITIAL_RELATIONSHIPS : Cardinality(d) <= MaxDeleted } }

InitialIds == { INITIAL_PEOPLE[i].id : i \in DOMAIN INITIAL_PEOPLE }

\* Snapshots of the second kind: the first two persons of the initial data and
\* any short relationship list over the ids "1", "2" and "3" (no person of the
\* list has id "3"): any endpoints, also equal ones, of a directed kind
\* (FATHER) or a symmetric kind (SPOUSE).  MOTHER and SIBLING relationships
\* are those of the initial data.
SmallPeople == SubSeq(INITIAL_PEOPLE, 1, 2)

SmallIds == {"1", "2", "3"}

SmallTypes == {FATHER, SPOUSE}

\* Relationship ids of the small snapshots, by position in the list.
RelIds == <<"r1", "r2", "r3", "r4", "r5", "r6">>

SmallLists(n) ==
    { [i \in 1..n |-> StoredRelationship(RelIds[i], f[i][1], f[i][2], f[i][3])] :
        f \in [1..n -> SmallIds \X SmallIds \X SmallTypes] }

\* The value null returned by the search.
Null == [found |-> FALSE]
\* A returned path.
Found(path) == [found |-> TRUE, path |-> path]

-----------------------------------------------------------------------------
(* Labels: the template literals of the adjacency builder *)

IsFatherOf == <<"i","s"," ","f","a","t","h","e","r"," ","o","f">>
IsMotherOf == <<"i","s"," ","m","o","t","h","e","r"," ","o","f">>
IsSpouseOf == <<"i","s"," ","s","p","o","u","s","e"," ","o","f">>
IsSiblingOf == <<"i","s"," ","s","i","b","l","i","n","g"," ","o","f">>
IsChildOf == <<"i","s"," ","c","h","i","l","d"," ","o","f">>

\* `is child of (father: ${name})`
IsChildOfFather(name) ==
    IsChildOf \o <<" ","(","f","a","t","h","e","r",":"," ">> \o name \o <<")">>

\* `is child of (mother: ${name})`
IsChildOfMother(name) ==
    IsChildOf \o <<" ","(","m","o","t","h","e","r",":"," ">> \o name \o <<")">>

-----------------------------------------------------------------------------
(* people.find(p => p.id === id) *)

HasPerson(ps, id) == \E i \in DOMAIN ps : ps[i].id = id

\* the first person with that id (only used when HasPerson holds)
FindPerson(ps, id) ==
    ps[CHOOSE i \in DOMAIN ps : ps[i].id = id /\ \A j \in 1..(i-1) : ps[j].id # id]

-----------------------------------------------------------------------------
(* Adjacency construction *)

\* adj after `for (const person of people) adj.set(person.id, [])`
EmptyAdj(ps) == [id \in { ps[i].id : i \in DOMAIN ps } |-> <<>>]

\* every person's list being one shared array, a push shows in all of them
PushShared(a, id, entry) == [k \in DOMAIN a |-> Append(a[k], entry)]

\* unshift in place of push: the entry goes to the front of the list
PushFront(a, id, entry) == [a EXCEPT ![id] = <<entry>> \o @]

\* adj.get(id)!.push(entry)
Push(a, id, entry) == [a EXCEPT ![id] = Append(@, entry)]

AdjEntry(personId, label, relationshipId) ==
    [personId |-> personId, relationshipLabel |-> label, relationshipId |-> relationshipId]

\* parent relationships entered from parent to child only
AddRelationshipForwardOnly(a, ps, rel) ==
    IF ~HasPerson(ps, rel.fromPersonId) \/ ~HasPerson(ps, rel.toPersonId) THEN a
    ELSE LET f == rel.fromPersonId
             t == rel.toPersonId
         IN  CASE rel.type = FATHER -> Push(a, f, AdjEntry(t, IsFatherOf, rel.id))
               [] rel.type = MOTHER -> Push(a, f, AdjEntry(t, IsMotherOf, rel.id))
               [] rel.type = SPOUSE ->
                    Push(Push(a, f, AdjEntry(t, IsSpouseOf, rel.id)),
                         t, AdjEntry(f, IsSpouseOf, rel.id))
               [] rel.type = SIBLING ->
                    Push(Push(a, f, AdjEntry(t, IsSiblingOf, rel.id)),
                         t, AdjEntry(f, IsSiblingOf, rel.id))
               [] OTHER -> a

\* a sibling relationship entered in its stored direction only
AddRelationshipSiblingOneWay(a, ps, rel) ==
    IF ~HasPerson(ps, rel.fromPersonId) \/ ~HasPerson(ps, rel.toPersonId) THEN a
    ELSE LET fromPerson == FindPerson(ps, rel.fromPersonId)
             f == rel.fromPersonId
             t == rel.toPersonId
         IN  CASE rel.type = FATHER ->
                    Push(Push(a, f, AdjEntry(t, IsFatherOf, rel.id)),
                         t, AdjEntry(f, IsChildOfFather(fromPerson.name), rel.id))
               [] rel.type = MOTHER ->
                    Push(Push(a, f, AdjEntry(t, IsMotherOf, rel.id)),
                         t, AdjEntry(f, IsChildOfMother(fromPerson.name), rel.id))
               [] rel.type = SPOUSE ->
                    Push(Push(a, f, AdjEntry(t, IsSpouseOf, rel.id)),
                         t, AdjEntry(f, IsSpouseOf, rel.id))
               [] rel.type = SIBLING -> Push(a, f, AdjEntry(t, IsSiblingOf, rel.id))
               [] OTHER -> a

\* the child-side label naming the child instead of the parent
AddRelationshipChildName(a, ps, rel) ==
    IF ~HasPerson(ps, rel.fromPersonId) \/ ~HasPerson(ps, rel.toPersonId) THEN a
    ELSE LET toPerson == FindPerson(ps, rel.toPersonId)
             f == rel.fromPersonId
             t == rel.toPersonId
         IN  CASE rel.type = FATHER ->
                    Push(Push(a, f, AdjEntry(t, IsFatherOf, rel.id)),
                         t, AdjEntry(f, IsChildOfFather(toPerson.name), rel.id))
               [] rel.type = MOTHER ->
                    Push(Push(a, f, AdjEntry(t, IsMotherOf, rel.id)),
                         t, AdjEntry(f, IsChildOfMother(toPerson.name), rel.id))
               [] rel.type = SPOUSE ->
                    Push(Push(a, f, AdjEntry(t, IsSpouseOf, rel.id)),
                         t, AdjEntry(f, IsSpouseOf, rel.id))
               [] rel.type = SIBLING ->
                    Push(Push(a, f, AdjEntry(t, IsSiblingOf, rel.id)),
                         t, AdjEntry(f, IsSiblingOf, rel.id))
               [] OTHER -> a

\* the parent label put on the child's entry and the child label on the parent's
AddRelationshipSwapped(a, ps, rel) ==
    IF ~HasPerson(ps, rel.fromPersonId) \/ ~HasPerson(ps, rel.toPersonId) THEN a
    ELSE LET fromPerson == FindPerson(ps, rel.fromPersonId)
             f == rel.fromPersonId
             t == rel.toPersonId
         IN  CASE rel.type = FATHER ->
                    Push(Push(a, t, AdjEntry(f, IsFatherOf, rel.id)),
                         f, AdjEntry(t, IsChildOfFather(fromPerson.name), rel.id))
               [] rel.type = MOTHER ->
                    Push(Push(a, t, AdjEntry(f, IsMotherOf, rel.id)),
                         f, AdjEntry(t, IsChildOfMother(fromPerson.name), rel.id))
               [] rel.type = SPOUSE ->
                    Push(Push(a, f, AdjEntry(t, IsSpouseOf, rel.id)),
                         t, AdjEntry(f, IsSpouseOf, rel.id))
               [] rel.type = SIBLING ->
                    Push(Push(a, f, AdjEntry(t, IsSiblingOf, rel.id)),
                         t, AdjEntry(f, IsSiblingOf, rel.id))
               [] OTHER -> a

\* `if (!fromPerson) continue;`
SkippedFromOnly(ps, rel) == ~HasPerson(ps, rel.fromPersonId)

\* `if (!fromPerson || !toPerson) continue;`
Skipped(ps, rel) == ~HasPerson(ps, rel.fromPersonId) \/ ~HasPerson(ps, rel.toPersonId)

\* One iteration of `for (const rel of relationships)`: the two pushes are made
\* one after the other (they go to the same list when from = to).
AddRelationship(a, ps, rel) ==
    IF Skipped(ps, rel) THEN a
    ELSE LET fromPerson == FindPerson(ps, rel.fromPersonId)
             f == rel.fromPersonId
             t == rel.toPersonId
         IN  CASE rel.type = FATHER ->
                    Push(Push(a, f, AdjEntry(t, IsFatherOf, rel.id)),
                         t, AdjEntry(f, IsChildOfFather(fromPerson.name), rel.id))
               [] rel.type = MOTHER ->
                    Push(Push(a, f, AdjEntry(t, IsMotherOf, rel.id)),
                         t, AdjEntry(f, IsChildOfMother(fromPerson.name), rel.id))
               [] rel.type = SPOUSE ->
                    Push(Push(a, f, AdjEntry(t, IsSpouseOf, rel.id)),
                         t, AdjEntry(f, IsSpouseOf, rel.id))
               [] rel.type = SIBLING ->
                    Push(Push(a, f, AdjEntry(t, IsSiblingOf, rel.id)),
                         t, AdjEntry(f, IsSiblingOf, rel.id))
               [] OTHER -> a

\* the loop left (break) at the first relationship with a missing endpoint
RECURSIVE BuildAdjFromBreak(_, _, _, _)
BuildAdjFromBreak(a, ps, rels, i) ==
    IF i > Len(rels) THEN a
    ELSE IF ~HasPerson(ps, rels[i].fromPersonId) \/ ~HasPerson(ps, rels[i].toPersonId)
         THEN a
         ELSE BuildAdjFromBreak(AddRelationship(a, ps, rels[i]), ps, rels, i + 1)

\* `adj.get(id)!.push(..)` raises a TypeError where adj holds no list for id,
\* and so does `fromPerson.name` where no person was found.
AddRelationshipThrows(a, ps, rel) ==
    /\ ~Skipped(ps, rel)
    /\ rel.type \in DirectRelationshipType
    /\ ~({rel.fromPersonId, rel.toPersonId} \subseteq DOMAIN a)

\* The loop over the relationships is left by a TypeError.  No push adds or
\* removes a key of adj.
BuildAdjThrows(ps, rels) ==
    \E i \in DOMAIN rels : AddRelationshipThrows(EmptyAdj(ps), ps, rels[i])

RECURSIVE BuildAdjFrom(_, _, _, _)
BuildAdjFrom(a, ps, rels, i) ==
    IF i > Len(rels) THEN a
    ELSE BuildAdjFrom(AddRelationship(a, ps, rels[i]), ps, rels, i + 1)

\* The Map adj as it stands when the search starts.
BuildAdj(ps, rels) == BuildAdjFrom(EmptyAdj(ps), ps, rels, 1)

\* adj.get(personId) || []
Neighbors(a, personId) == IF personId \in DOMAIN a THEN a[personId] ELSE <<>>

-----------------------------------------------------------------------------
(* Breadth-first search *)

QueueEntry(personId, currentPath) == [personId |-> personId, currentPath |-> currentPath]

\* the path extended without dropping the segment that is rewritten
ExtendPathKeepLast(currentPath, neighbor, neighborPerson) ==
    LET lastSegmentInPath == currentPath[Len(currentPath)]
        updatedLastSegment ==
            [person |-> lastSegmentInPath.person,
             relationshipToNext |-> neighbor.relationshipLabel,
             relationshipId |-> neighbor.relationshipId]
    IN  currentPath \o <<updatedLastSegment, [person |-> neighborPerson]>>

\* [...currentPath.slice(0, -1), updatedLastSegment, { person: neighborPerson }]
ExtendPath(currentPath, neighbor, neighborPerson) ==
    LET lastSegmentInPath == currentPath[Len(currentPath)]
        updatedLastSegment ==
            [person |-> lastSegmentInPath.person,
             relationshipToNext |-> neighbor.relationshipLabel,
             relationshipId |-> neighbor.relationshipId]
    IN  SubSeq(currentPath, 1, Len(currentPath) - 1)
            \o <<updatedLastSegment, [person |-> neighborPerson]>>

\* `for (const neighbor of neighbors)` from index i on, with the queue q and the
\* visited set v as they stand; yields the queue and visited set after the loop.
RECURSIVE VisitNeighbors(_, _, _, _, _, _)
VisitNeighbors(neighbors, i, ps, currentPath, q, v) ==
    IF i > Len(neighbors) THEN [queue |-> q, visited |-> v]
    ELSE LET neighbor == neighbors[i] IN
         IF neighbor.personId \in v
         THEN VisitNeighbors(neighbors, i + 1, ps, currentPath, q, v)
         ELSE IF HasPerson(ps, neighbor.personId)
              THEN VisitNeighbors(neighbors, i + 1, ps, currentPath,
                        Append(q, QueueEntry(neighbor.personId,
                                   ExtendPath(currentPath, neighbor,
                                              FindPerson(ps, neighbor.personId)))),
                        v \cup {neighbor.personId})
              ELSE VisitNeighbors(neighbors, i + 1, ps, currentPath, q,
                        v \cup {neighbor.personId})

\* the last segment relabelled in place, and kept as it is in every new path:
\* the paths queued for the neighbours of one person hold the same segment
\* object, which ends with the label written for the last of them
ExpandInPlace(a, ps, entry, q, v) ==
    LET out == VisitNeighbors(Neighbors(a, entry.personId), 1, ps, entry.currentPath, q, v)
        n == Len(entry.currentPath)
        sharing(e) ==
            /\ Len(e.currentPath) = n + 1
            /\ e.currentPath[n].person = entry.currentPath[n].person
        lastSegmentInPath == out.queue[Len(out.queue)].currentPath[n]
    IN  [queue |-> [k \in DOMAIN out.queue |->
                        IF sharing(out.queue[k])
                        THEN [out.queue[k] EXCEPT !.currentPath[n] = lastSegmentInPath]
                        ELSE out.queue[k]],
         visited |-> out.visited]

\* The body of the while loop after the end test: the dequeued entry's
\* neighbours are visited; q is the queue after queue.shift().
Expand(a, ps, entry, q, v) ==
    VisitNeighbors(Neighbors(a, entry.personId), 1, ps, entry.currentPath, q, v)

\* queue.pop() in place of queue.shift(): the newest entry is taken
ShiftLast(q) == [entry |-> q[Len(q)], rest |-> SubSeq(q, 1, Len(q) - 1)]

\* queue.shift(): the entry taken and the queue left
Shift(q) == [entry |-> Head(q), rest |-> Tail(q)]

\* The while loop, run to its return.
RECURSIVE Search(_, _, _, _, _)
Search(a, ps, endId, q, v) ==
    IF q = <<>> THEN Null
    ELSE LET entry == Shift(q).entry IN
         IF entry.personId = endId THEN Found(entry.currentPath)
         ELSE LET next == Expand(a, ps, entry, Shift(q).rest, v)
              IN  Search(a, ps, endId, next.queue, next.visited)

\* equal ids answered with null
SelfPathNull(ps, startId) == Null

\* The early return for startPersonId === endPersonId
SelfPath(ps, startId) ==
    IF HasPerson(ps, startId) THEN Found(<<[person |-> FindPerson(ps, startId)]>>)
    ELSE Null

\* The queue and the visited set before the while loop
InitialQueue(ps, startId) ==
    <<QueueEntry(startId, <<[person |-> FindPerson(ps, startId)]>>)>>

\* new Set() in place of new Set([startPersonId])
InitialVisitedEmpty(startId) == {}

InitialVisited(startId) == {startId}

\* The call raises a TypeError instead of returning.
findRelationshipPathThrows(startId, endId, ps, rels) ==
    startId # endId /\ BuildAdjThrows(ps, rels)

\* The whole function, as the value of its arguments that a call returns.
findRelationshipPath(startId, endId, ps, rels) ==
    IF startId = endId THEN SelfPath(ps, startId)
    ELSE IF ~HasPerson(ps, startId) THEN Null
         ELSE Search(BuildAdj(ps, rels), ps, endId,
                     InitialQueue(ps, startId), InitialVisited(startId))

-----------------------------------------------------------------------------
(* deriveComplexRelationship: the classification of a found path *)

\* The returned `string | null`
NoRelationship == [named |-> FALSE]

RelationshipText(text) == [named |-> TRUE, text |-> text]

\* String.prototype.includes
Includes(s, searchString) ==
    \E i \in 0..(Len(s) - Len(searchString)) :
        SubSeq(s, i + 1, i + Len(searchString)) = searchString

\* String.prototype.startsWith
StartsWith(s, searchString) ==
    Len(s) >= Len(searchString) /\ SubSeq(s, 1, Len(searchString)) = searchString

\* `if (p1Segment.relationshipToNext)`: the label is there and is not ''
HasLabel(segment) ==
    "relationshipToNext" \in DOMAIN segment /\ segment.relationshipToNext # <<>>

\* `label?.includes(searchString)`: undefined (falsy) where there is no label
OptionalIncludes(segment, searchString) ==
    /\ "relationshipToNext" \in DOMAIN segment
    /\ Includes(segment.relationshipToNext, searchString)

\* `label?.startsWith(searchString)`
OptionalStartsWith(segment, searchString) ==
    /\ "relationshipToNext" \in DOMAIN segment
    /\ StartsWith(segment.relationshipToNext, searchString)

\* `label?.includes('is father of') || label?.includes('is mother of')`
IncludesParentOf(segment) ==
    OptionalIncludes(segment, IsFatherOf) \/ OptionalIncludes(segment, IsMotherOf)

\* The terms of the three-person rules
Grandfather == <<"g","r","a","n","d","f","a","t","h","e","r">>

Grandmother == <<"g","r","a","n","d","m","o","t","h","e","r">>

Grandparent == <<"g","r","a","n","d","p","a","r","e","n","t">>

Grandson == <<"g","r","a","n","d","s","o","n">>

Granddaughter == <<"g","r","a","n","d","d","a","u","g","h","t","e","r">>

Grandchild == <<"g","r","a","n","d","c","h","i","l","d">>

FatherInLaw == <<"f","a","t","h","e","r","-","i","n","-","l","a","w">>

MotherInLaw == <<"m","o","t","h","e","r","-","i","n","-","l","a","w">>

ParentInLaw == <<"p","a","r","e","n","t","-","i","n","-","l","a","w">>

SonInLaw == <<"s","o","n","-","i","n","-","l","a","w">>

DaughterInLaw == <<"d","a","u","g","h","t","e","r","-","i","n","-","l","a","w">>

ChildInLaw == <<"c","h","i","l","d","-","i","n","-","l","a","w">>

Uncle == <<"u","n","c","l","e">>

Aunt == <<"a","u","n","t">>

AuntUncle == <<"a","u","n","t","/","u","n","c","l","e">>

Nephew == <<"n","e","p","h","e","w">>

Niece == <<"n","i","e","c","e">>

NephewNiece == <<"n","e","p","h","e","w","/","n","i","e","c","e">>

\* whoever is not male takes the female term
GenderTermOfTwo(person, male, female, neutral) ==
    IF "gender" \in DOMAIN person /\ person.gender = "male" THEN male ELSE female

\* `startPerson.gender === 'male' ? .. : startPerson.gender === 'female' ? .. : ..`
GenderTerm(person, male, female, neutral) ==
    IF "gender" \in DOMAIN person /\ person.gender = "male" THEN male
    ELSE IF "gender" \in DOMAIN person /\ person.gender = "female" THEN female
    ELSE neutral

\* `${startPerson.name} is ${genderTerm} of ${endPerson.name}.`
TermSentence(startPerson, genderTerm, endPerson) ==
    RelationshipText(startPerson.name \o <<" ","i","s"," ">> \o genderTerm \o <<" ","o","f"," ">>
                     \o endPerson.name \o <<".">>)

\* `if (!path || path.length < 2) return null;`
TooShort(path) == ~path.found \/ Len(path.path) < 2

\* the label echoed whatever it says
DirectRelationshipEchoed(startPerson, segment, endPerson) ==
    RelationshipText(startPerson.name \o <<" ">> \o segment.relationshipToNext
                     \o <<" ">> \o endPerson.name \o <<".">>)

\* The branch `path.length === 2` once the label is known to be there
DirectRelationship(startPerson, segment, endPerson) ==
    IF StartsWith(segment.relationshipToNext, IsChildOf)
    THEN RelationshipText(startPerson.name \o <<" ","i","s"," ","c","h","i","l","d"," ","o","f"," ">> \o endPerson.name \o <<".">>)
    ELSE IF Includes(segment.relationshipToNext, IsSiblingOf)
    THEN RelationshipText(startPerson.name \o <<" ","a","n","d"," ">> \o endPerson.name
                          \o <<" ","a","r","e"," ","s","i","b","l","i","n","g","s",".">>)
    ELSE RelationshipText(startPerson.name \o <<" ">> \o segment.relationshipToNext
                          \o <<" ">> \o endPerson.name \o <<".">>)

\* The branch `path.length === 3`: the six rules in the order of the code
TwoHopRelationship(startPerson, p1, p2, endPerson) ==
    IF IncludesParentOf(p1) /\ IncludesParentOf(p2)
    THEN TermSentence(startPerson,
                      GenderTerm(startPerson, Grandfather, Grandmother, Grandparent),
                      endPerson)
    ELSE IF OptionalStartsWith(p1, IsChildOf) /\ OptionalStartsWith(p2, IsChildOf)
    THEN TermSentence(startPerson,
                      GenderTerm(startPerson, Grandson, Granddaughter, Grandchild),
                      endPerson)
    ELSE IF IncludesParentOf(p1) /\ OptionalIncludes(p2, IsSpouseOf)
    THEN TermSentence(startPerson,
                      GenderTerm(startPerson, FatherInLaw, MotherInLaw, ParentInLaw),
                      endPerson)
    ELSE IF OptionalIncludes(p1, IsSpouseOf) /\ OptionalStartsWith(p2, IsChildOf)
    THEN TermSentence(startPerson,
                      GenderTerm(startPerson, SonInLaw, DaughterInLaw, ChildInLaw),
                      endPerson)
    ELSE IF OptionalIncludes(p1, IsSiblingOf) /\ IncludesParentOf(p2)
    THEN TermSentence(startPerson,
                      GenderTerm(startPerson, Uncle, Aunt, AuntUncle),
                      endPerson)
    ELSE IF OptionalStartsWith(p1, IsChildOf) /\ OptionalIncludes(p2, IsSiblingOf)
    THEN TermSentence(startPerson,
                      GenderTerm(startPerson, Nephew, Niece, NephewNiece),
                      endPerson)
    ELSE NoRelationship

\* the first and the last person looked up by id in allPeople, where found
deriveComplexRelationshipByLookup(path, allPeople) ==
    IF TooShort(path) THEN NoRelationship
    ELSE LET p == path.path
             current(person) ==
                 IF HasPerson(allPeople, person.id) THEN FindPerson(allPeople, person.id)
                 ELSE person
             startPerson == current(p[1].person)
             endPerson == current(p[Len(p)].person)
         IN  IF Len(p) = 2 /\ HasLabel(p[1])
             THEN DirectRelationship(startPerson, p[1], endPerson)
             ELSE IF Len(p) = 3
             THEN TwoHopRelationship(startPerson, p[1], p[2], endPerson)
             ELSE NoRelationship

\* the two-hop rules applied to the first two hops of any longer path
deriveComplexRelationshipFromThree(path, allPeople) ==
    IF TooShort(path) THEN NoRelationship
    ELSE LET p == path.path
         IN  IF Len(p) = 2 /\ HasLabel(p[1])
             THEN DirectRelationship(p[1].person, p[1], p[2].person)
             ELSE IF Len(p) >= 3
             THEN TwoHopRelationship(p[1].person, p[1], p[2], p[Len(p)].person)
             ELSE NoRelationship

\* `path[0].person`, `path[path.length - 1].person` and `.name` raise a
\* TypeError where they read from null or undefined.
deriveComplexRelationshipThrows(path, allPeople) ==
    /\ ~TooShort(path)
    /\ \/ ~path.found
       \/ path.path = <<>>
       \/ "person" \notin DOMAIN path.path[1]
       \/ "person" \notin DOMAIN path.path[Len(path.path)]

\* The value of a call that returns.  allPeople is a parameter the body never
\* reads.
deriveComplexRelationship(path, allPeople) ==
    IF TooShort(path) THEN NoRelationship
    ELSE LET p == path.path
             startPerson == p[1].person
             endPerson == p[Len(p)].person
         IN  IF Len(p) = 2 /\ HasLabel(p[1])
             THEN DirectRelationship(startPerson, p[1], endPerson)
             ELSE IF Len(p) = 3
             THEN TwoHopRelationship(startPerson, p[1], p[2], endPerson)
             ELSE NoRelationship

-----------------------------------------------------------------------------
(* Further inputs: chains of three persons, and paths handed to the
   classifier as they are *)

\* A name that is itself the text of a label
ChainNames == { <<"B","o">>, IsFatherOf }

\* The first person of a chain or path: any gender, or none recorded
StartPersons ==
    { Person("a", <<"A","n","n">>, g) : g \in {"male", "female", "other", "unknown"} }
        \cup { [id |-> "a", name |-> <<"A","n","n">>] }

ChainPeople ==
    { <<a, Person("b", nb, "male"), Person("c", nc, "female")>> :
        a \in StartPersons, nb \in ChainNames, nc \in ChainNames }

\* The four kinds and a type that is none of them
ChainTypes == DirectRelationshipType \cup {"GODPARENT"}

\* One relationship between x and y, of any type, in either direction
Links(id, x, y) ==
    { StoredRelationship(id, e[1], e[2], t) : e \in {<<x, y>>, <<y, x>>}, t \in ChainTypes }

\* a and b related, b and c related, in either order of the list
ChainLists ==
    UNION { {<<r1, r2>>, <<r2, r1>>} : r1 \in Links("ab", "a", "b"), r2 \in Links("bc", "b", "c") }

\* Labels of path segments: the builder's, with either name embedded, and ''
DrawnLabels ==
    {IsFatherOf, IsMotherOf, IsSpouseOf, IsSiblingOf, IsChildOfMother(<<"B","o">>), <<>>}
        \cup { IsChildOfFather(n) : n \in ChainNames }

\* A people list that knows the first person of the drawn paths by another
\* name and gender
OtherPeople == << Person("a", <<"Z","e","d">>, "male") >>

\* A segment may have a label (and then a relationship id) or none
LabelChoices == ({TRUE} \X DrawnLabels) \cup {<<FALSE, <<>>>>}

DrawnSegment(person, choice) ==
    IF choice[1]
    THEN [person |-> person, relationshipToNext |-> choice[2], relationshipId |-> "r"]
    ELSE [person |-> person]

\* The person at position i of a drawn path of n segments that starts with a
DrawnPerson(a, i, n) ==
    IF i = 1 THEN a
    ELSE IF i = n THEN Person("c", <<"C","y">>, "female")
    ELSE Person("b", <<"B","o">>, "male")

\* The path of n >= 1 segments that starts with person a and has the labels
\* chosen by c; the last segment has no label
DrawnPath(a, c, n) ==
    [i \in 1..n |-> IF i = n THEN [person |-> DrawnPerson(a, i, n)]
                    ELSE DrawnSegment(DrawnPerson(a, i, n), c[i])]

-----------------------------------------------------------------------------
(* The App: values of its state *)

\* highlightedPathInfo = null
NoHighlight == [set |-> FALSE]
\* { nodeIds, linkIds }
HighlightedPathInfo(nodeIds, linkIds) == [set |-> TRUE, nodeIds |-> nodeIds, linkIds |-> linkIds]

\* editingPerson = null
NoPerson == [present |-> FALSE]
SomePerson(person) == [present |-> TRUE, person |-> person]

\* error = null
NoError == "null"
SelfError == "Cannot form a relationship with oneself."
DuplicateError == "This relationship already exists."
\* `This person already has a ${type.toLowerCase()} assigned.`
ParentError(type) ==
    IF type = FATHER THEN "This person already has a father assigned."
    ELSE "This person already has a mother assigned."
NotFoundError == "Could not find person to edit."
NameError == "Another person with that name already exists."
ImportError == "Failed to import data. The file might be corrupted or in an invalid format."

ManageFamily == "ManageFamily"
FindChain == "FindChain"

-----------------------------------------------------------------------------
(* The App: handleHighlightPath *)

\* `if (segment.relationshipId)`
HasLink(segment) == "relationshipId" \in DOMAIN segment /\ segment.relationshipId # ""

\* `!path || path.length === 0`
NothingToHighlight(path) == ~path.found \/ Len(path.path) = 0

\* the node ids taken from the segments that carry a relationship id only
handleHighlightPathOfHops(path) ==
    IF NothingToHighlight(path) THEN NoHighlight
    ELSE LET linked == { i \in DOMAIN path.path : HasLink(path.path[i]) }
         IN  HighlightedPathInfo({ path.path[i].person.id : i \in linked },
                                 { path.path[i].relationshipId : i \in linked })

\* The value handed to setHighlightedPathInfo
handleHighlightPath(path) ==
    IF NothingToHighlight(path) THEN NoHighlight
    ELSE LET nodeIds == { path.path[i].person.id : i \in DOMAIN path.path }
             linkIds == { path.path[i].relationshipId :
                            i \in { j \in DOMAIN path.path : HasLink(path.path[j]) } }
         IN  HighlightedPathInfo(nodeIds, IF Len(path.path) = 1 THEN {} ELSE linkIds)

\* The view after handleHighlightPath: set to ManageFamily unless the early
\* return is taken
ViewAfterHighlight(path, view) == IF NothingToHighlight(path) THEN view ELSE ManageFamily

-----------------------------------------------------------------------------
(* The App: updateRelationship *)

\* the test of the duplicate search without the reversed SPOUSE / SIBLING case
IsDuplicateSameDirection(r, id, fromPersonId, toPersonId, type) ==
    /\ r.id # id
    /\ r.fromPersonId = fromPersonId /\ r.toPersonId = toPersonId /\ r.type = type

\* The test of the duplicate search
IsDuplicate(r, id, fromPersonId, toPersonId, type) ==
    /\ r.id # id
    /\ \/ r.fromPersonId = fromPersonId /\ r.toPersonId = toPersonId /\ r.type = type
       \/ /\ type \in {SPOUSE, SIBLING}
          /\ r.fromPersonId = toPersonId /\ r.toPersonId = fromPersonId /\ r.type = type

\* no parent is ever found in the way
ParentTakenNever(rels, id, fromPersonId, toPersonId, type) == FALSE

\* `existingParent && existingParent.fromPersonId !== fromPersonId` for a
\* FATHER or MOTHER type; existingParent is the first relationship of the
\* list with `r.id !== id && r.toPersonId === toPersonId && r.type === type`
ParentTaken(rels, id, fromPersonId, toPersonId, type) ==
    /\ type \in {FATHER, MOTHER}
    /\ LET found == { i \in DOMAIN rels :
                        /\ rels[i].id # id
                        /\ rels[i].toPersonId = toPersonId
                        /\ rels[i].type = type }
       IN  /\ found # {}
           /\ rels[CHOOSE i \in found : \A j \in found : i <= j].fromPersonId
                 # fromPersonId

\* a rejected call: the error is set and false returned
Rejected(rels, highlight, message) ==
    [returned |-> FALSE, error |-> message, relationships |-> rels,
     highlightedPathInfo |-> highlight]

\* the check for equal persons left out
SelfRejectedNever(fromPersonId, toPersonId) == FALSE

\* `fromPersonId === toPersonId`
SelfRejected(fromPersonId, toPersonId) == fromPersonId = toPersonId

\* prev.map(r => r.id === id ? { ...r, fromPersonId, toPersonId, type } : r)
Rewritten(rels, id, fromPersonId, toPersonId, type) ==
    [i \in DOMAIN rels |->
        IF rels[i].id = id THEN StoredRelationship(id, fromPersonId, toPersonId, type)
        ELSE rels[i]]

\* The call on the relationships and the highlight of the last render: the
\* value returned, and the error, relationships and highlight it leaves.
updateRelationship(rels, highlight, id, fromPersonId, toPersonId, type) ==
    IF SelfRejected(fromPersonId, toPersonId) THEN Rejected(rels, highlight, SelfError)
    ELSE IF \E i \in DOMAIN rels : IsDuplicate(rels[i], id, fromPersonId, toPersonId, type)
    THEN Rejected(rels, highlight, DuplicateError)
    ELSE IF ParentTaken(rels, id, fromPersonId, toPersonId, type)
    THEN Rejected(rels, highlight, ParentError(type))
    ELSE [returned |-> TRUE, error |-> NoError,
          relationships |-> Rewritten(rels, id, fromPersonId, toPersonId, type),
          highlightedPathInfo |-> NoHighlight]

-----------------------------------------------------------------------------
(* The App: deletePerson, deleteRelationship *)

\* only the relationships that start at the person are dropped
WithoutRelationshipsFrom(rels, personId) ==
    SelectSeq(rels, LAMBDA r : r.fromPersonId # personId)

\* prevPeople.filter(p => p.id !== personId)
WithoutPerson(ps, personId) == SelectSeq(ps, LAMBDA p : p.id # personId)

\* prevRels.filter(r => r.fromPersonId !== personId && r.toPersonId !== personId)
WithoutRelationshipsOf(rels, personId) ==
    SelectSeq(rels, LAMBDA r : r.fromPersonId # personId /\ r.toPersonId # personId)

\* prevRels.filter(r => r.id !== relationshipId)
WithoutRelationship(rels, relationshipId) == SelectSeq(rels, LAMBDA r : r.id # relationshipId)

\* deletePerson(personId) with the answer given to window.confirm: the
\* people, relationships, highlight and modal state that the call leaves
deletePerson(ps, rels, highlight, editing, open, personId, confirmed) ==
    IF ~confirmed
    THEN [people |-> ps, relationships |-> rels, highlightedPathInfo |-> highlight,
          editingPerson |-> editing, isEditModalOpen |-> open]
    ELSE [people |-> WithoutPerson(ps, personId),
          relationships |-> WithoutRelationshipsOf(rels, personId),
          highlightedPathInfo |-> NoHighlight,
          editingPerson |-> NoPerson, isEditModalOpen |-> FALSE]

-----------------------------------------------------------------------------
(* The App: the edit modal, handleUpdatePerson *)

\* The letters: capital and small
Letters ==
    << <<"A","a">>, <<"B","b">>, <<"C","c">>, <<"D","d">>, <<"E","e">>, <<"F","f">>,
       <<"G","g">>, <<"H","h">>, <<"I","i">>, <<"J","j">>, <<"K","k">>, <<"L","l">>,
       <<"M","m">>, <<"N","n">>, <<"O","o">>, <<"P","p">>, <<"Q","q">>, <<"R","r">>,
       <<"S","s">>, <<"T","t">>, <<"U","u">>, <<"V","v">>, <<"W","w">>, <<"X","x">>,
       <<"Y","y">>, <<"Z","z">> >>

\* name.toLowerCase()
ToLowerCase(s) ==
    [i \in DOMAIN s |->
        IF \E k \in DOMAIN Letters : Letters[k][1] = s[i]
        THEN Letters[CHOOSE k \in DOMAIN Letters : Letters[k][1] = s[i]][2]
        ELSE s[i]]

\* name.trim()
RECURSIVE Trim(_)
Trim(s) ==
    IF s = <<>> THEN s
    ELSE IF Head(s) = " " THEN Trim(Tail(s))
    ELSE IF s[Len(s)] = " " THEN Trim(SubSeq(s, 1, Len(s) - 1))
    ELSE s

\* `updates.name && people.some(p => p.id !== personId && p.name.toLowerCase()
\* === updates.name.trim().toLowerCase())`
NameTaken(ps, personId, updates) ==
    /\ updates.name # <<>>
    /\ \E i \in DOMAIN ps :
          /\ ps[i].id # personId
          /\ ToLowerCase(ps[i].name) = ToLowerCase(Trim(updates.name))

\* prevPeople.map(p => p.id === personId ? { ...p, ...updates, name: ... } : p)
UpdatedPeople(ps, personId, updates) ==
    [i \in DOMAIN ps |->
        IF ps[i].id = personId
        THEN Person(ps[i].id,
                    IF updates.name # <<>> THEN Trim(updates.name) ELSE ps[i].name,
                    updates.gender)
        ELSE ps[i]]

-----------------------------------------------------------------------------
(* The App: importFamilyData *)

\* JSON.parse(text) with data.people and data.relationships both arrays
ParsedFile(ps, rels) == [arrays |-> TRUE, people |-> ps, relationships |-> rels]
\* The files offered to the import: one that does not parse or holds no two
\* arrays, an export of the first two persons and their marriage, and the
\* same export with the second person removed by hand, the marriage left in
Files ==
    { [arrays |-> FALSE],
      ParsedFile(SubSeq(INITIAL_PEOPLE, 1, 2), SubSeq(INITIAL_RELATIONSHIPS, 1, 1)),
      ParsedFile(SubSeq(INITIAL_PEOPLE, 1, 1), SubSeq(INITIAL_RELATIONSHIPS, 1, 1)) }

-----------------------------------------------------------------------------
(* RelationshipChainFinder *)

NoChainError == "null"
NoPathError == "No relationship path found between the selected individuals."

\* setTimeout has no callback waiting
NoTimer == [pending |-> FALSE]
\* The callback of handleFindPath with the values its closure holds
Timer(aId, bId, ps, rels) ==
    [pending |-> TRUE, personAId |-> aId, personBId |-> bId, people |-> ps,
     relationships |-> rels]

\* `${person.name} is themselves.`
IsThemselves(person) ==
    RelationshipText(person.name \o <<" ","i","s"," ","t","h","e","m","s","e","l","v","e","s",".">>)

\* The options of a PersonSelector: the placeholder and the people that are
\* not selected in the other selector
Options(ps, otherId) == {""} \cup { ps[i].id : i \in { j \in DOMAIN ps : ps[j].id # otherId } }

-----------------------------------------------------------------------------
(* The components as constructed *)

\* The App's useState initial values besides people and relationships; no
\* file is being read
AppConstructed ==
    /\ activeView = ManageFamily
    /\ error = NoError
    /\ highlightedPathInfo = NoHighlight
    /\ editingPerson = NoPerson
    /\ isEditModalOpen = FALSE
    /\ reads = {}

\* The finder's useState initial values; no callback is waiting
FinderConstructed ==
    /\ personAId = ""
    /\ personBId = ""
    /\ foundPath = Null
    /\ derivedRelationship = NoRelationship
    /\ isLoading = FALSE
    /\ chainError = NoChainError
    /\ timer = NoTimer

-----------------------------------------------------------------------------
(* The call, step by step *)

\* A call on a snapshot of the initial data
InitInitialData ==
    /\ people = INITIAL_PEOPLE
    /\ relationships \in InitialDataLists
    /\ startPersonId \in InitialIds
    /\ endPersonId \in InitialIds

\* A call on a small snapshot
InitSmall ==
    /\ people = SmallPeople
    /\ \E n \in 0..MaxRels : relationships \in SmallLists(n)
    /\ startPersonId \in SmallIds
    /\ endPersonId \in SmallIds

\* Nothing has run yet
NotStarted ==
    /\ pc = "start"
    /\ adj = <<>>
    /\ queue = <<>>
    /\ visited = {}
    /\ result = Null
    /\ derived = NoRelationship
    /\ AppConstructed
    /\ FinderConstructed

Init ==
    /\ InitInitialData \/ InitSmall
    /\ NotStarted

\* A call on a chain of three persons, from one end to the other
InitChain ==
    /\ people \in ChainPeople
    /\ relationships \in ChainLists
    /\ startPersonId \in {"a", "c"}
    /\ endPersonId \in {"a", "c"} \ {startPersonId}
    /\ NotStarted

\* A path in hand, to be classified as it is: null, the empty path, or a path
\* of up to MaxSegments segments
InitDrawn ==
    /\ \/ result \in {Null, Found(<<>>)}
       \/ \E n \in 1..MaxSegments :
             \E a \in StartPersons, c \in [1..(n - 1) -> LabelChoices] :
                 result = Found(DrawnPath(a, c, n))
    /\ people \in {<<>>, OtherPeople}
    /\ relationships = <<>>
    /\ startPersonId = "a"
    /\ endPersonId = "c"
    /\ pc = "done"
    /\ adj = <<>>
    /\ queue = <<>>
    /\ visited = {}
    /\ derived = NoRelationship
    /\ AppConstructed
    /\ FinderConstructed

InitWide == Init \/ InitChain \/ InitDrawn

\* From the entry of the function to the first test of the while loop.
Enter ==
    /\ pc = "start"
    /\ IF startPersonId = endPersonId
       THEN /\ result' = SelfPath(people, startPersonId)
            /\ pc' = "done"
            /\ UNCHANGED <<adj, queue, visited>>
       ELSE IF BuildAdjThrows(people, relationships)
       THEN /\ pc' = "threw"
            /\ UNCHANGED <<adj, queue, visited, result>>
       ELSE /\ adj' = BuildAdj(people, relationships)
            /\ IF ~HasPerson(people, startPersonId)
               THEN /\ result' = Null
                    /\ pc' = "done"
                    /\ UNCHANGED <<queue, visited>>
               ELSE /\ queue' = InitialQueue(people, startPersonId)
                    /\ visited' = InitialVisited(startPersonId)
                    /\ pc' = "loop"
                    /\ UNCHANGED result
    /\ UNCHANGED <<people, relationships, startPersonId, endPersonId, derived>>
    /\ UNCHANGED <<appVars, finderVars>>

\* One iteration of the while loop.
Iterate ==
    /\ pc = "loop"
    /\ queue # <<>>
    /\ LET entry == Shift(queue).entry IN
       IF entry.personId = endPersonId
       THEN /\ result' = Found(entry.currentPath)
            /\ pc' = "done"
            /\ queue' = Shift(queue).rest
            /\ UNCHANGED visited
       ELSE LET next == Expand(adj, people, entry, Shift(queue).rest, visited) IN
            /\ queue' = next.queue
            /\ visited' = next.visited
            /\ UNCHANGED <<pc, result>>
    /\ UNCHANGED <<people, relationships, startPersonId, endPersonId, adj, derived>>
    /\ UNCHANGED <<appVars, finderVars>>

\* The while loop ends with an empty queue.
Exhaust ==
    /\ pc = "loop"
    /\ queue = <<>>
    /\ result' = Null
    /\ pc' = "done"
    /\ UNCHANGED <<people, relationships, startPersonId, endPersonId, adj, queue, visited,
                   derived>>
    /\ UNCHANGED <<appVars, finderVars>>

\* deriveComplexRelationship(path, people) on the value in hand
Derive ==
    /\ pc = "done"
    /\ IF deriveComplexRelationshipThrows(result, people)
       THEN /\ pc' = "threw"
            /\ UNCHANGED derived
       ELSE /\ derived' = deriveComplexRelationship(result, people)
            /\ pc' = "classified"
    /\ UNCHANGED <<people, relationships, startPersonId, endPersonId, adj, queue, visited,
                   result>>
    /\ UNCHANGED <<appVars, finderVars>>

Next == Enter \/ Iterate \/ Exhaust \/ Derive

Spec == Init /\ [][Next]_vars

\* The same steps from any of the inputs
WideSpec == InitWide /\ [][Next]_vars

\* The call runs to its return: nothing suspends it.
FairSpec == Spec /\ WF_vars(Next)

-----------------------------------------------------------------------------
(* handleHighlightPath on the outcome of a search *)

\* handleHighlightPath(path) on the value in hand
Highlight ==
    /\ pc = "done"
    /\ highlightedPathInfo' = handleHighlightPath(result)
    /\ activeView' = ViewAfterHighlight(result, activeView)
    /\ pc' = "highlighted"
    /\ UNCHANGED <<people, relationships, startPersonId, endPersonId, adj, queue, visited,
                   result, derived>>
    /\ UNCHANGED <<error, editingPerson, isEditModalOpen, reads, finderVars>>

HighlightNext == Enter \/ Iterate \/ Exhaust \/ Highlight

\* A search, or a path in hand, and the highlight of its outcome
HighlightSpec == InitWide /\ [][HighlightNext]_vars

-----------------------------------------------------------------------------
(* The App's handlers as steps *)

\* The family the App holds after deletePerson has been confirmed for every
\* person of the initial data outside keep
KeptPeople(keep) == SelectSeq(INITIAL_PEOPLE, LAMBDA p : p.id \in keep)

KeptRelationships(keep) ==
    SelectSeq(INITIAL_RELATIONSHIPS,
              LAMBDA r : r.fromPersonId \in keep /\ r.toPersonId \in keep)

\* The families the handlers are run on: a father, his daughter and her
\* husband; a brother, his sister and her daughter
Households == { {"1", "4", "5"}, {"3", "4", "6"} }

\* people.map(p => p.id)
PersonIds(ps) == { ps[i].id : i \in DOMAIN ps }

\* The search and the classifier are not running
NoCall ==
    /\ startPersonId = ""
    /\ endPersonId = ""
    /\ pc = "start"
    /\ adj = <<>>
    /\ queue = <<>>
    /\ visited = {}
    /\ result = Null
    /\ derived = NoRelationship

\* The ManageFamily view and the nav buttons are rendered with the modal too
ListShown == activeView = ManageFamily

\* `isEditModalOpen && editingPerson`
ModalShown == isEditModalOpen /\ editingPerson.present

\* The relationships the modal lists for personToEdit
PersonRelationships(rels, personToEdit) ==
    { rels[i].id : i \in { j \in DOMAIN rels :
                             \/ rels[j].fromPersonId = personToEdit.id
                             \/ rels[j].toPersonId = personToEdit.id } }

\* updateRelationship(id, fromPersonId, toPersonId, type), the callback of the
\* edit modal, with the id of any relationship, any two persons and any type
UpdateRelationship ==
    /\ ModalShown
    /\ \E id \in { relationships[i].id : i \in DOMAIN relationships },
          fromPersonId \in PersonIds(people), toPersonId \in PersonIds(people),
          type \in DirectRelationshipType :
          LET call == updateRelationship(relationships, highlightedPathInfo,
                                         id, fromPersonId, toPersonId, type)
          IN  /\ relationships' = call.relationships
              /\ highlightedPathInfo' = call.highlightedPathInfo
              /\ error' = call.error
    /\ UNCHANGED <<people, callVars, activeView, editingPerson, isEditModalOpen, reads,
                   finderVars>>

\* deletePerson(personId) from the person list, the graph or the modal, with
\* the answer given to window.confirm
DeletePerson ==
    /\ \E personId \in PersonIds(people) \cup
                       (IF ModalShown THEN {editingPerson.person.id} ELSE {}),
          confirmed \in BOOLEAN :
          /\ ListShown \/ (ModalShown /\ personId = editingPerson.person.id)
          /\ LET call == deletePerson(people, relationships, highlightedPathInfo,
                                      editingPerson, isEditModalOpen, personId, confirmed)
             IN  /\ people' = call.people
                 /\ relationships' = call.relationships
                 /\ highlightedPathInfo' = call.highlightedPathInfo
                 /\ editingPerson' = call.editingPerson
                 /\ isEditModalOpen' = call.isEditModalOpen
    /\ UNCHANGED <<callVars, activeView, error, reads, finderVars>>

\* deleteRelationship(relationshipId) from the graph or the modal, with the
\* answer given to window.confirm
DeleteRelationship ==
    /\ \E relationshipId \in { relationships[i].id : i \in DOMAIN relationships },
          confirmed \in BOOLEAN :
          /\ \/ ListShown
             \/ /\ ModalShown
                /\ relationshipId \in PersonRelationships(relationships, editingPerson.person)
          /\ IF confirmed
             THEN /\ relationships' = WithoutRelationship(relationships, relationshipId)
                  /\ highlightedPathInfo' = NoHighlight
             ELSE UNCHANGED <<relationships, highlightedPathInfo>>
    /\ UNCHANGED <<people, callVars, activeView, error, editingPerson, isEditModalOpen,
                   reads, finderVars>>

\* handleOpenEditModal(personId) from the person list or the graph
HandleOpenEditModal ==
    /\ ListShown
    /\ \E personId \in PersonIds(people) :
          IF HasPerson(people, personId)
          THEN /\ editingPerson' = SomePerson(FindPerson(people, personId))
               /\ isEditModalOpen' = TRUE
               /\ error' = NoError
          ELSE /\ error' = NotFoundError
               /\ UNCHANGED <<editingPerson, isEditModalOpen>>
    /\ UNCHANGED <<people, relationships, callVars, activeView, highlightedPathInfo, reads,
                   finderVars>>

\* handleCloseEditModal, the modal's onClose
HandleCloseEditModal ==
    /\ ModalShown
    /\ isEditModalOpen' = FALSE
    /\ editingPerson' = NoPerson
    /\ UNCHANGED <<people, relationships, callVars, activeView, error, highlightedPathInfo,
                   reads, finderVars>>

\* The name typed into the modal's form, with a space before it
TypedNames == { <<" ","Z","e","d">> }

\* handleUpdatePerson(personToEdit.id, updates), the modal's submit
HandleUpdatePerson ==
    /\ ModalShown
    /\ \E name \in TypedNames, gender \in {"other"} :
          LET personId == editingPerson.person.id
              \* the form submits the trimmed name and the gender; birthDate
              \* and profilePicUrl are not modelled
              updates == [name |-> Trim(name), gender |-> gender]
          IN  IF NameTaken(people, personId, updates)
              THEN /\ error' = NameError
                   /\ UNCHANGED <<people, editingPerson, isEditModalOpen>>
              ELSE /\ error' = NoError
                   /\ people' = UpdatedPeople(people, personId, updates)
                   /\ isEditModalOpen' = FALSE
                   /\ editingPerson' = NoPerson
    /\ UNCHANGED <<relationships, callVars, activeView, highlightedPathInfo, reads,
                   finderVars>>

\* importFamilyData up to reader.readAsText(file): a file is chosen
ImportFamilyData ==
    /\ ListShown
    /\ Cardinality(reads) < MaxReads
    /\ \E file \in Files : reads' = reads \cup {file}
    /\ UNCHANGED <<people, relationships, callVars, activeView, error, highlightedPathInfo,
                   editingPerson, isEditModalOpen, finderVars>>

\* reader.onload for one of the files being read
ReaderOnload ==
    /\ \E file \in reads :
          /\ reads' = reads \ {file}
          /\ IF file.arrays
             THEN /\ people' = file.people
                  /\ relationships' = file.relationships
                  /\ highlightedPathInfo' = NoHighlight
                  /\ error' = NoError
             ELSE /\ error' = ImportError
                  /\ UNCHANGED <<people, relationships, highlightedPathInfo>>
    /\ UNCHANGED <<callVars, activeView, editingPerson, isEditModalOpen, finderVars>>

\* The finder is unmounted: its state is gone, and the callback still waiting
\* sets the state of a component that is no longer there
FinderUnmounted ==
    /\ personAId' = ""
    /\ personBId' = ""
    /\ foundPath' = Null
    /\ derivedRelationship' = NoRelationship
    /\ isLoading' = FALSE
    /\ chainError' = NoChainError
    /\ timer' = NoTimer

\* setActiveView(view), a nav button; the finder is rendered in the FindChain
\* view only and is constructed anew whenever that view is entered
SetActiveView ==
    /\ \E view \in {ManageFamily, FindChain} :
          /\ view # activeView
          /\ activeView' = view
    /\ FinderUnmounted
    /\ UNCHANGED <<people, relationships, callVars, error, highlightedPathInfo,
                   editingPerson, isEditModalOpen, reads>>

\* clearHighlight, the button shown over the graph while a path is highlighted
ClearHighlight ==
    /\ ListShown
    /\ highlightedPathInfo.set
    /\ highlightedPathInfo' = NoHighlight
    /\ UNCHANGED <<people, relationships, callVars, activeView, error, editingPerson,
                   isEditModalOpen, reads, finderVars>>

-----------------------------------------------------------------------------
(* The finder's handlers as steps *)

FinderShown == activeView = FindChain

\* resetSearch: the finder's result is dropped and onHighlightPath(null) called
ResetSearch ==
    /\ foundPath' = Null
    /\ derivedRelationship' = NoRelationship
    /\ chainError' = NoChainError
    /\ highlightedPathInfo' = handleHighlightPath(Null)
    /\ activeView' = ViewAfterHighlight(Null, activeView)

\* onChange of the Person A selector
SelectPersonA ==
    /\ FinderShown
    /\ \E id \in Options(people, personBId) : personAId' = id
    /\ ResetSearch
    /\ UNCHANGED <<people, relationships, callVars, error, editingPerson, isEditModalOpen,
                   reads, personBId, isLoading, timer>>

\* onChange of the Person B selector
SelectPersonB ==
    /\ FinderShown
    /\ \E id \in Options(people, personAId) : personBId' = id
    /\ ResetSearch
    /\ UNCHANGED <<people, relationships, callVars, error, editingPerson, isEditModalOpen,
                   reads, personAId, isLoading, timer>>

\* handleFindPath, the click of the `Find Path` button, which is disabled
\* while isLoading or while a selector shows its placeholder
HandleFindPath ==
    /\ FinderShown
    /\ ~isLoading /\ personAId # "" /\ personBId # ""
    /\ highlightedPathInfo' = handleHighlightPath(Null)
    /\ activeView' = ViewAfterHighlight(Null, activeView)
    /\ chainError' = NoChainError
    /\ IF personAId = personBId
       THEN /\ IF HasPerson(people, personAId)
               THEN /\ foundPath' = Found(<<[person |-> FindPerson(people, personAId)]>>)
                    /\ derivedRelationship' = IsThemselves(FindPerson(people, personAId))
               ELSE /\ foundPath' = Null
                    /\ derivedRelationship' = NoRelationship
            /\ isLoading' = FALSE
            /\ UNCHANGED timer
       ELSE /\ foundPath' = Null
            /\ derivedRelationship' = NoRelationship
            /\ isLoading' = TRUE
            /\ timer' = Timer(personAId, personBId, people, relationships)
    /\ UNCHANGED <<people, relationships, callVars, error, editingPerson, isEditModalOpen,
                   reads, personAId, personBId>>

\* The callback of setTimeout runs, 300 ms after the click or later, with the
\* ids and the lists of the render in which the button was clicked
TimerFires ==
    /\ timer.pending
    /\ timer' = NoTimer
    /\ IF findRelationshipPathThrows(timer.personAId, timer.personBId,
                                     timer.people, timer.relationships)
       THEN UNCHANGED <<foundPath, derivedRelationship, chainError, isLoading>>
       ELSE LET path == findRelationshipPath(timer.personAId, timer.personBId,
                                             timer.people, timer.relationships)
            IN  /\ foundPath' = path
                /\ IF path.found
                   THEN IF deriveComplexRelationshipThrows(path, timer.people)
                        THEN UNCHANGED <<derivedRelationship, chainError, isLoading>>
                        ELSE /\ derivedRelationship' =
                                    deriveComplexRelationship(path, timer.people)
                             /\ isLoading' = FALSE
                             /\ UNCHANGED chainError
                   ELSE /\ chainError' = NoPathError
                        /\ isLoading' = FALSE
                        /\ UNCHANGED derivedRelationship
    /\ UNCHANGED <<people, relationships, callVars, appVars, personAId, personBId>>

\* `foundPath && foundPath.length > 0`, and the button is left out for the
\* path of a person to themselves
ShowButtonShown ==
    /\ foundPath.found
    /\ Len(foundPath.path) > 0
    /\ ~(Len(foundPath.path) = 1 /\ personAId = personBId)

\* handleShowOnGraphClick: onHighlightPath(foundPath); the view it sets
\* unmounts the finder
HandleShowOnGraphClick ==
    /\ FinderShown
    /\ ShowButtonShown
    /\ highlightedPathInfo' = handleHighlightPath(foundPath)
    /\ activeView' = ViewAfterHighlight(foundPath, activeView)
    /\ IF activeView' = FindChain THEN UNCHANGED finderVars ELSE FinderUnmounted
    /\ UNCHANGED <<people, relationships, callVars, error, editingPerson, isEditModalOpen,
                   reads>>

-----------------------------------------------------------------------------
(* Specifications of the App *)

\* The App holds a household of the initial data; nothing else has happened
InitHousehold ==
    /\ \E keep \in Households :
          /\ people = KeptPeople(keep)
          /\ relationships = KeptRelationships(keep)
    /\ NoCall
    /\ AppConstructed
    /\ FinderConstructed

\* The same with a path between two of its persons highlighted on the graph
InitHighlighted ==
    /\ \E keep \in Households :
          /\ people = KeptPeople(keep)
          /\ relationships = KeptRelationships(keep)
          /\ \E a \in keep : \E b \in keep \ {a} :
                highlightedPathInfo =
                    handleHighlightPath(findRelationshipPath(a, b, people, relationships))
    /\ NoCall
    /\ activeView = ManageFamily
    /\ error = NoError
    /\ editingPerson = NoPerson
    /\ isEditModalOpen = FALSE
    /\ reads = {}
    /\ FinderConstructed

EditInit == InitHousehold \/ InitHighlighted

\* The handlers that edit the lists, and the modal they are called from
EditNext ==
    \/ UpdateRelationship
    \/ DeleteRelationship
    \/ DeletePerson
    \/ HandleOpenEditModal
    \/ HandleCloseEditModal

EditSpec == EditInit /\ [][EditNext]_vars

\* The App holds a father and his daughter
InitCouple ==
    /\ people = KeptPeople({"1", "4"})
    /\ relationships = KeptRelationships({"1", "4"})
    /\ NoCall
    /\ AppConstructed
    /\ FinderConstructed

\* The handlers that write the people and relationship lists, and the modal
DataNext ==
    \/ UpdateRelationship
    \/ DeleteRelationship
    \/ DeletePerson
    \/ HandleOpenEditModal
    \/ HandleCloseEditModal
    \/ HandleUpdatePerson
    \/ ImportFamilyData
    \/ ReaderOnload

DataSpec == InitCouple /\ [][DataNext]_vars

\* The handlers that write the relationship list, remove a person or set the
\* highlight, with the views, the modal and the finder
AppNext ==
    \/ UpdateRelationship
    \/ DeleteRelationship
    \/ DeletePerson
    \/ HandleOpenEditModal
    \/ HandleCloseEditModal
    \/ ImportFamilyData
    \/ ReaderOnload
    \/ SetActiveView
    \/ ClearHighlight
    \/ SelectPersonA
    \/ SelectPersonB
    \/ HandleFindPath
    \/ TimerFires
    \/ HandleShowOnGraphClick

AppSpec == InitCouple /\ [][AppNext]_vars

\* The finder is shown over a household that nobody edits
InitFinder ==
    /\ \E keep \in Households :
          /\ people = KeptPeople(keep)
          /\ relationships = KeptRelationships(keep)
    /\ NoCall
    /\ activeView = FindChain
    /\ error = NoError
    /\ highlightedPathInfo = NoHighlight
    /\ editingPerson = NoPerson
    /\ isEditModalOpen = FALSE
    /\ reads = {}
    /\ FinderConstructed

\* The selectors, the `Find Path` button and the delayed callback
FinderNext ==
    \/ SelectPersonA
    \/ SelectPersonB
    \/ HandleFindPath
    \/ TimerFires

FinderSpec == InitFinder /\ [][FinderNext]_vars

-----------------------------------------------------------------------------
(* The graph the claims speak of, defined without the search *)

Ids(ps) == { ps[i].id : i \in DOMAIN ps }

\* a relationship whose two endpoints are persons of the list
Resolvable(rel, ps) == rel.fromPersonId \in Ids(ps) /\ rel.toPersonId \in Ids(ps)

\* the undirected unit-weight edges: the endpoint pairs of the resolvable
\* relationships
Edges(ps, rels) ==
    { <<rels[i].fromPersonId, rels[i].toPersonId>> :
        i \in { j \in DOMAIN rels : Resolvable(rels[j], ps) } }

\* x and y are joined by a relationship, in either direction
Linked(x, y, ps, rels) == <<x, y>> \in Edges(ps, rels) \/ <<y, x>> \in Edges(ps, rels)

\* S and the persons one edge away from a person of S
Around(S, E) ==
    S \cup { e[2] : e \in { d \in E : d[1] \in S } }
      \cup { e[1] : e \in { d \in E : d[2] \in S } }

\* everything joined to a person of S by a chain of edges
RECURSIVE Component(_, _)
Component(S, E) == IF Around(S, E) = S THEN S ELSE Component(Around(S, E), E)

Connected(x, y, ps, rels) == x \in Ids(ps) /\ y \in Component({x}, Edges(ps, rels))

\* fewest edges from a person of S to y, plus k (y being joined to S)
RECURSIVE EdgesTo(_, _, _, _)
EdgesTo(S, y, E, k) == IF y \in S THEN k ELSE EdgesTo(Around(S, E), y, E, k + 1)

\* fewest edges between two connected persons
Distance(x, y, ps, rels) == EdgesTo({x}, y, Edges(ps, rels), 0)

\* the relationships of the list with that id (ids are unique in a snapshot)
RelsWithId(rels, id) == { rels[i] : i \in { j \in DOMAIN rels : rels[j].id = id } }

\* the label of a relationship read from its fromPersonId to its toPersonId
ForwardLabel(rel) ==
    CASE rel.type = FATHER -> IsFatherOf
      [] rel.type = MOTHER -> IsMotherOf
      [] rel.type = SPOUSE -> IsSpouseOf
      [] rel.type = SIBLING -> IsSiblingOf

\* the label of a relationship read from its toPersonId to its fromPersonId
BackwardLabel(rel, ps) ==
    CASE rel.type = FATHER -> IsChildOfFather(FindPerson(ps, rel.fromPersonId).name)
      [] rel.type = MOTHER -> IsChildOfMother(FindPerson(ps, rel.fromPersonId).name)
      [] rel.type = SPOUSE -> IsSpouseOf
      [] rel.type = SIBLING -> IsSiblingOf

\* the labels of a hop from person x to person y along rel
HopLabels(rel, x, y, ps) ==
    (IF rel.fromPersonId = x /\ rel.toPersonId = y THEN {ForwardLabel(rel)} ELSE {})
    \cup (IF rel.fromPersonId = y /\ rel.toPersonId = x THEN {BackwardLabel(rel, ps)} ELSE {})

\* the places <<person id, index>> of the adjacency entries with a relationship id
EntriesWithId(a, id) ==
    { pl \in UNION { {p} \X DOMAIN a[p] : p \in DOMAIN a } : a[pl[1]][pl[2]].relationshipId = id }

\* the position in the list of the relationship an adjacency entry comes from
PositionOf(rels, entry) == CHOOSE i \in DOMAIN rels : rels[i].id = entry.relationshipId

\* FATHER before MOTHER before SPOUSE before SIBLING
KindRank(type) ==
    CASE type = FATHER -> 1 [] type = MOTHER -> 2 [] type = SPOUSE -> 3 [] type = SIBLING -> 4

\* the call has returned after building the adjacency structure
Built == pc = "done" /\ startPersonId # endPersonId

\* the relationships from a person to another person, in order
RECURSIVE WithoutSelfEdges(_)
WithoutSelfEdges(rels) ==
    IF rels = <<>> THEN <<>>
    ELSE (IF Head(rels).fromPersonId # Head(rels).toPersonId THEN <<Head(rels)>> ELSE <<>>)
            \o WithoutSelfEdges(Tail(rels))

\* the entries a step puts into the queue
Added ==
    CASE pc = "start" -> queue'
      [] pc = "loop" /\ queue # <<>> -> SubSeq(queue', Len(queue), Len(queue'))
      [] OTHER -> <<>>

\* a step enqueues only ids not visited so far, each once, and records them as
\* visited; nothing visited is forgotten and nothing waiting is touched
EnqueuesUnvisitedOnly ==
    /\ visited \subseteq visited'
    /\ (pc = "loop" /\ queue # <<>>) =>
            /\ Len(queue') >= Len(queue) - 1
            /\ SubSeq(queue', 1, Len(queue) - 1) = Tail(queue)
    /\ \A i \in DOMAIN Added :
          /\ Added[i].personId \notin visited
          /\ Added[i].personId \in visited'
          /\ \A j \in DOMAIN Added : j # i => Added[j].personId # Added[i].personId

\* the relationships with both endpoints in the people list, in order
RECURSIVE ResolvableOnly(_, _)
ResolvableOnly(rels, ps) ==
    IF rels = <<>> THEN <<>>
    ELSE (IF Resolvable(Head(rels), ps) THEN <<Head(rels)>> ELSE <<>>)
            \o ResolvableOnly(Tail(rels), ps)

\* s begins with the text prefix
BeginsWith(s, prefix) ==
    Len(s) >= Len(prefix) /\ SubSeq(s, 1, Len(prefix)) = prefix

Hops(r) == Len(r.path) - 1

Returned == pc = "done"

\* The step-by-step call returns the value of the function.
ReturnsFunctionValue ==
    Returned => result = findRelationshipPath(startPersonId, endPersonId, people, relationships)

-----------------------------------------------------------------------------
(* Claims *)

\* C1: for start # end that both exist and are connected through relationships
\* whose two endpoints exist, the call returns a path, and its number of hops
\* is the fewest edges between start and end in the undirected unit-weight graph.
C1_ShortestPath ==
    (/\ Returned
     /\ startPersonId # endPersonId
     /\ Connected(startPersonId, endPersonId, people, relationships))
    => /\ result.found
       /\ Hops(result) = Distance(startPersonId, endPersonId, people, relationships)

\* a connected pair three edges apart that stays connected when the relationship
\* of the first hop is taken away (a second route exists)
C1_Witness ==
    /\ Returned
    /\ result.found
    /\ Hops(result) = 3
    /\ \E i \in DOMAIN relationships :
          /\ relationships[i].id \notin { result.path[k].relationshipId : k \in 1..3 }
          /\ Connected(startPersonId, endPersonId, people,
                       WithoutIndices(relationships, 1,
                           { j \in DOMAIN relationships :
                               relationships[j].id = result.path[1].relationshipId }))

\* C2: when start and end lie in different connected components (also when the
\* end person has no relationship at all), the call returns null.
C2_NoPath ==
    (/\ Returned
     /\ startPersonId # endPersonId
     /\ ~Connected(startPersonId, endPersonId, people, relationships))
    => result = Null

\* two existing persons in different components, the start person having
\* relationships and the end person none
C2_Witness ==
    /\ Returned
    /\ startPersonId # endPersonId
    /\ startPersonId \in Ids(people)
    /\ endPersonId \in Ids(people)
    /\ ~Connected(startPersonId, endPersonId, people, relationships)
    /\ \E y \in Ids(people) : y # startPersonId /\ Linked(startPersonId, y, people, relationships)
    /\ \A y \in Ids(people) : ~Linked(endPersonId, y, people, relationships)
    /\ result = Null

\* C3: a call with start = end returns the one-segment path of that person,
\* without label or relationship id, if and only if the person is in the people
\* list, and null otherwise, whatever the relationships are.
C3_Reflexive ==
    (Returned /\ startPersonId = endPersonId)
    => /\ result.found <=> startPersonId \in Ids(people)
       /\ result.found =>
            /\ Len(result.path) = 1
            /\ DOMAIN result.path[1] = {"person"}
            /\ result.path[1].person.id = startPersonId
            /\ \E i \in DOMAIN people : people[i] = result.path[1].person
       /\ ~result.found => result = Null

\* start = end, the person exists and has relationships
C3_Witness ==
    /\ Returned
    /\ startPersonId = endPersonId
    /\ result.found
    /\ \E y \in Ids(people) : Linked(startPersonId, y, people, relationships)

\* C4: the call for (A, B) returns a path exactly when the call for (B, A) does,
\* and then the two paths have the same number of hops.
C4_Symmetric ==
    Returned =>
        LET back == findRelationshipPath(endPersonId, startPersonId, people, relationships)
        IN  /\ result.found <=> back.found
            /\ result.found => Hops(result) = Hops(back)

\* a path of two hops or more whose first hop climbs from a child to a parent
C4_Witness ==
    /\ Returned
    /\ result.found
    /\ Hops(result) >= 2
    /\ \E i \in DOMAIN relationships :
          /\ relationships[i].id = result.path[1].relationshipId
          /\ relationships[i].type \in {FATHER, MOTHER}
          /\ relationships[i].toPersonId = startPersonId

\* C5: every returned path is well formed: it starts at the start person and
\* ends at the end person, no person occurs twice, the last segment has neither
\* label nor relationship id, and every other segment carries the label and the
\* id of one relationship of the list whose endpoints are that segment's person
\* and the next one.
C5_WellFormed ==
    (Returned /\ result.found) =>
        LET path == result.path
            n == Len(path)
        IN  /\ n >= 1
            /\ path[1].person.id = startPersonId
            /\ path[n].person.id = endPersonId
            /\ \A i \in 1..n : \E k \in DOMAIN people : people[k] = path[i].person
            /\ \A i, j \in 1..n : i # j => path[i].person.id # path[j].person.id
            /\ DOMAIN path[n] = {"person"}
            /\ \A i \in 1..(n - 1) :
                  /\ DOMAIN path[i] = {"person", "relationshipToNext", "relationshipId"}
                  /\ \E rel \in RelsWithId(relationships, path[i].relationshipId) :
                        path[i].relationshipToNext \in
                            HopLabels(rel, path[i].person.id, path[i + 1].person.id, people)

\* a returned path of three hops, one of them from a child to a parent
C5_Witness ==
    /\ Returned
    /\ result.found
    /\ Len(result.path) = 4
    /\ \E i \in 1..3 : BeginsWith(result.path[i].relationshipToNext, IsChildOf)

\* C6: the adjacency structure holds, for each relationship whose two endpoints
\* exist, exactly two entries with its id: at the from person an entry to the to
\* person with the forward label, at the to person an entry to the from person
\* with the child-of label naming the from person (FATHER, MOTHER) or the same
\* label (SPOUSE, SIBLING); it holds no other entry.
C6_Adjacency ==
    Built =>
        /\ DOMAIN adj = Ids(people)
        /\ \A p \in DOMAIN adj : \A k \in DOMAIN adj[p] :
              \E i \in DOMAIN relationships :
                  /\ Resolvable(relationships[i], people)
                  /\ relationships[i].id = adj[p][k].relationshipId
        /\ \A i \in DOMAIN relationships :
              LET rel == relationships[i]
                  forward == AdjEntry(rel.toPersonId, ForwardLabel(rel), rel.id)
                  backward == AdjEntry(rel.fromPersonId, BackwardLabel(rel, people), rel.id)
                  places == EntriesWithId(adj, rel.id)
              IN  Resolvable(rel, people) =>
                      /\ Cardinality(places) = 2
                      /\ \E pl \in places :
                            /\ pl[1] = rel.fromPersonId
                            /\ adj[pl[1]][pl[2]] = forward
                            /\ \E ql \in places \ {pl} :
                                  /\ ql[1] = rel.toPersonId
                                  /\ adj[ql[1]][ql[2]] = backward

\* a built structure for a list with a FATHER relationship between two
\* different persons and a relationship with a missing endpoint
C6_Witness ==
    /\ Built
    /\ \E i \in DOMAIN relationships :
          /\ relationships[i].type = FATHER
          /\ Resolvable(relationships[i], people)
          /\ relationships[i].fromPersonId # relationships[i].toPersonId
    /\ \E i \in DOMAIN relationships : ~Resolvable(relationships[i], people)

\* C7: on a returned path a hop labelled 'is father of' or 'is mother of' goes
\* from its relationship's fromPersonId to its toPersonId; a hop labelled
\* 'is child of (...)' goes from the toPersonId to the fromPersonId and its label
\* embeds the name of the next person on the path.
C7_LabelDirection ==
    (Returned /\ result.found) =>
        \A i \in 1..Hops(result) :
            LET seg == result.path[i]
                nxt == result.path[i + 1]
            IN  \A rel \in RelsWithId(relationships, seg.relationshipId) :
                    /\ seg.relationshipToNext \in {IsFatherOf, IsMotherOf} =>
                            /\ rel.fromPersonId = seg.person.id
                            /\ rel.toPersonId = nxt.person.id
                    /\ BeginsWith(seg.relationshipToNext, IsChildOf) =>
                            /\ rel.toPersonId = seg.person.id
                            /\ rel.fromPersonId = nxt.person.id
                            /\ seg.relationshipToNext \in
                                  { IsChildOfFather(nxt.person.name),
                                    IsChildOfMother(nxt.person.name) }

\* a returned path that climbs to a parent and descends to another child
C7_Witness ==
    /\ Returned
    /\ result.found
    /\ Hops(result) = 2
    /\ BeginsWith(result.path[1].relationshipToNext, IsChildOf)
    /\ result.path[2].relationshipToNext \in {IsFatherOf, IsMotherOf}

\* C8: relationships with an endpoint that is no person of the list are
\* ignored: the call returns what it returns on the list without them, and no
\* returned path carries the id of one of them.
C8_DanglingIgnored ==
    Returned =>
        /\ result = findRelationshipPath(startPersonId, endPersonId, people,
                                         ResolvableOnly(relationships, people))
        /\ result.found =>
              \A i \in 1..Hops(result) : \A j \in DOMAIN relationships :
                  relationships[j].id = result.path[i].relationshipId
                      => Resolvable(relationships[j], people)

\* a path is returned although a relationship with a missing endpoint comes
\* first in the list
C8_Witness ==
    /\ Returned
    /\ result.found
    /\ Hops(result) >= 1
    /\ relationships # <<>>
    /\ ~Resolvable(relationships[1], people)

\* C9: the search returns on every input, also with cycles, parallel
\* relationships and relationships from a person to themselves; every person id
\* is put into the queue at most once (a step enqueues only ids never visited
\* before and marks them visited); and the result is the one the same input
\* without its self-referential relationships gives.
C9_Terminates ==
    /\ <>Returned
    /\ [][EnqueuesUnvisitedOnly]_vars
    /\ [](Returned =>
            result = findRelationshipPath(startPersonId, endPersonId, people,
                                          WithoutSelfEdges(relationships)))

\* a path is returned from a person whose first relationship is one to
\* themselves
C9_Witness ==
    /\ Returned
    /\ result.found
    /\ Hops(result) >= 1
    /\ relationships # <<>>
    /\ relationships[1].fromPersonId = startPersonId
    /\ relationships[1].toPersonId = startPersonId

\* C10 as stated: in every adjacency list all FATHER entries come before all
\* MOTHER entries, these before all SPOUSE entries, these before all SIBLING
\* entries, and entries of one kind are in the order of the relationship list.
C10_KindOrder ==
    Built =>
        \A p \in DOMAIN adj : \A k, l \in DOMAIN adj[p] :
            k < l =>
                LET i == PositionOf(relationships, adj[p][k])
                    j == PositionOf(relationships, adj[p][l])
                IN  /\ KindRank(relationships[i].type) <= KindRank(relationships[j].type)
                    /\ relationships[i].type = relationships[j].type => i <= j

\* C10 as amended: in every adjacency list the entries are in the order of the
\* relationship list, whatever their kinds (the two entries of a relationship
\* from a person to themselves: the forward one first).
C10_InputOrder ==
    Built =>
        \A p \in DOMAIN adj : \A k, l \in DOMAIN adj[p] :
            k < l =>
                LET i == PositionOf(relationships, adj[p][k])
                    j == PositionOf(relationships, adj[p][l])
                IN  /\ i <= j
                    /\ i = j =>
                          /\ adj[p][k].relationshipLabel = ForwardLabel(relationships[i])
                          /\ adj[p][l].relationshipLabel = BackwardLabel(relationships[i], people)

\* an adjacency list with a SPOUSE entry ahead of a FATHER entry, as the list
\* of the initial data gives for person "1"
C10_Witness ==
    /\ Built
    /\ \E p \in DOMAIN adj : \E k, l \in DOMAIN adj[p] :
          /\ k < l
          /\ adj[p][k].relationshipLabel = IsSpouseOf
          /\ adj[p][l].relationshipLabel = IsFatherOf

-----------------------------------------------------------------------------
(* The order of discovery, defined without the queue *)

\* the index of the first entry of an adjacency list that points to y
FirstIndexTo(list, y) ==
    CHOOSE k \in DOMAIN list :
        list[k].personId = y /\ \A j \in 1..(k - 1) : list[j].personId # y

\* s comes before t, for two index sequences of one length
Precedes(s, t) ==
    \E k \in DOMAIN s : s[k] < t[k] /\ \A j \in 1..(k - 1) : s[j] = t[j]

\* x and y are the two ends of an edge of E
Joined(x, y, E) == <<x, y>> \in E \/ <<y, x>> \in E

\* The discovery keys of the persons joined to the start: for each of them the
\* adjacency indices followed from the start along the search tree.  Persons
\* are dequeued level by level and, within a level, in the order of their
\* keys; a person of the next level is enqueued by the adjacent person with
\* the least key.  keys holds the keys of the levels found so far.
RECURSIVE DiscoveryKeys(_, _, _)
DiscoveryKeys(keys, a, E) ==
    LET known == DOMAIN keys
        new == Around(known, E) \ known
        parent(y) ==
            CHOOSE z \in known :
                /\ Joined(z, y, E)
                /\ \A w \in known \ {z} : Joined(w, y, E) => Precedes(keys[z], keys[w])
    IN  IF new = {} THEN keys
        ELSE DiscoveryKeys(
                [y \in known \cup new |->
                    IF y \in known THEN keys[y]
                    ELSE Append(keys[parent(y)], FirstIndexTo(a[parent(y)], y))],
                a, E)

\* the earliest-dequeued person adjacent to y: the one whose key the key of y
\* extends
FirstParent(y, keys) ==
    CHOOSE z \in DOMAIN keys : keys[z] = SubSeq(keys[y], 1, Len(keys[y]) - 1)

\* C11: among several shortest paths the call returns the one a breadth-first
\* search discovers first: every person of the returned path after the start
\* was enqueued by the earliest-dequeued person adjacent to it, and every
\* segment carries the label and the id of the first entry of its person's
\* adjacency list that points to the next person.
C11_FirstDiscovered ==
    (Returned /\ result.found /\ startPersonId # endPersonId) =>
        LET keys == DiscoveryKeys([z \in {startPersonId} |-> <<>>], adj,
                                  Edges(people, relationships))
        IN  \A i \in 1..Hops(result) :
                LET x == result.path[i].person.id
                    y == result.path[i + 1].person.id
                    first == adj[x][FirstIndexTo(adj[x], y)]
                IN  /\ x = FirstParent(y, keys)
                    /\ result.path[i].relationshipToNext = first.relationshipLabel
                    /\ result.path[i].relationshipId = first.relationshipId

\* a returned path of two hops where another person, too, is joined to both
\* the start and the end
C11_Witness ==
    /\ Returned
    /\ result.found
    /\ Hops(result) = 2
    /\ \E z \in Ids(people) \ {result.path[2].person.id} :
          /\ Linked(startPersonId, z, people, relationships)
          /\ Linked(z, endPersonId, people, relationships)

-----------------------------------------------------------------------------
(* The classification table the claims speak of, defined on the kinds of
   the hops and without the tests of the classifier *)

Classified == pc = "classified"

\* The text before the name in a child-of label is as long for a mother as
\* for a father.
ChildOfNameAt == Len(IsChildOfFather(<<>>))

\* The name embedded in a label of the form 'is child of (father: NAME)'
EmbeddedName(label) == SubSeq(label, ChildOfNameAt, Len(label) - 1)

ChildOfLabel(label) ==
    /\ Len(label) >= ChildOfNameAt
    /\ label \in {IsChildOfFather(EmbeddedName(label)), IsChildOfMother(EmbeddedName(label))}

\* The kind of a hop, read from the whole label
HopKind(segment) ==
    IF "relationshipToNext" \notin DOMAIN segment THEN "none"
    ELSE IF segment.relationshipToNext \in {IsFatherOf, IsMotherOf} THEN "parent-of"
    ELSE IF segment.relationshipToNext = IsSpouseOf THEN "spouse-of"
    ELSE IF segment.relationshipToNext = IsSiblingOf THEN "sibling-of"
    ELSE IF ChildOfLabel(segment.relationshipToNext) THEN "child-of"
    ELSE "none"

HopKinds == {"parent-of", "child-of", "spouse-of", "sibling-of"}

\* The rows of the table: the terms for a male, a female and any other start
\* person; <<>> where the table has no row.
TableRow(kind1, kind2) ==
    CASE kind1 = "parent-of" /\ kind2 = "parent-of" -> <<Grandfather, Grandmother, Grandparent>>
      [] kind1 = "child-of" /\ kind2 = "child-of" -> <<Grandson, Granddaughter, Grandchild>>
      [] kind1 = "parent-of" /\ kind2 = "spouse-of" -> <<FatherInLaw, MotherInLaw, ParentInLaw>>
      [] kind1 = "spouse-of" /\ kind2 = "child-of" -> <<SonInLaw, DaughterInLaw, ChildInLaw>>
      [] kind1 = "sibling-of" /\ kind2 = "parent-of" -> <<Uncle, Aunt, AuntUncle>>
      [] kind1 = "child-of" /\ kind2 = "sibling-of" -> <<Nephew, Niece, NephewNiece>>
      [] OTHER -> <<>>

RowOf(path) == TableRow(HopKind(path[1]), HopKind(path[2]))

GenderOf(person) == IF "gender" \in DOMAIN person THEN person.gender ELSE "absent"

\* The term of a row for a start person
RowTerm(row, person) ==
    IF GenderOf(person) = "male" THEN row[1]
    ELSE IF GenderOf(person) = "female" THEN row[2]
    ELSE row[3]

\* '<start name> is <term> of <end name>.'
Named(path, term) ==
    RelationshipText(path[1].person.name \o <<" ","i","s"," ">> \o term
                     \o <<" ","o","f"," ">> \o path[Len(path)].person.name \o <<".">>)

ThreePersons == Classified /\ result.found /\ Len(result.path) = 3

\* C12: a three-person path whose two hops match a row of the table is
\* classified '<start name> is <term> of <end name>.', the term being the
\* row's term for the gender of the start person.
C12_TableRows ==
    (ThreePersons /\ RowOf(result.path) # <<>>) =>
        derived = Named(result.path, RowTerm(RowOf(result.path), result.path[1].person))

\* The kind of a hop whose label is the one the adjacency builder writes for
\* a hop to the person next: a child-of label embeds the name of that person.
BuilderKind(segment, next) ==
    IF HopKind(segment) = "child-of"
          /\ EmbeddedName(segment.relationshipToNext) # next.name
    THEN "none"
    ELSE HopKind(segment)

\* C13: a three-person path with the builder's labels whose pair of hop kinds
\* is not a row of the table is classified null, whatever the names of the
\* persons, the parent's name embedded in a child-of label included.
C13_NoRowNoName ==
    (/\ ThreePersons
     /\ BuilderKind(result.path[1], result.path[2].person) \in HopKinds
     /\ BuilderKind(result.path[2], result.path[3].person) \in HopKinds
     /\ RowOf(result.path) = <<>>)
        => derived = NoRelationship

TwoPersons == Classified /\ result.found /\ Len(result.path) = 2

\* C14: a two-person path from X to Y is classified 'X is child of Y.' for a
\* child-of label, 'X and Y are siblings.' for the sibling label, and
\* 'X <label> Y.' for the labels 'is father of', 'is mother of' and
\* 'is spouse of'.
C14_DirectEdge ==
    TwoPersons =>
        LET X == result.path[1].person.name
            Y == result.path[2].person.name
            kind == HopKind(result.path[1])
        IN  /\ kind = "child-of" =>
                  derived = RelationshipText(X \o <<" ","i","s"," ","c","h","i","l","d"," ","o","f"," ">> \o Y \o <<".">>)
            /\ kind = "sibling-of" =>
                  derived = RelationshipText(X \o <<" ","a","n","d"," ">> \o Y \o <<" ","a","r","e"," ","s","i","b","l","i","n","g","s",".">>)
            /\ kind \in {"parent-of", "spouse-of"} =>
                  derived = RelationshipText(X \o <<" ">> \o result.path[1].relationshipToNext
                                             \o <<" ">> \o Y \o <<".">>)

\* A child-of hop to a parent whose name is label text has been classified.
C14_Witness ==
    /\ TwoPersons
    /\ derived.named
    /\ HopKind(result.path[1]) = "child-of"
    /\ EmbeddedName(result.path[1].relationshipToNext) = IsFatherOf

\* The classifier has been called on result: it has returned or raised.
Derived == pc \in {"classified", "threw"}

\* C15: a null path, a path of fewer than two segments and a path of four or
\* more segments are classified null whatever their labels; so is a
\* four-person path that the search returned.
C15_NullOutsideTwoOrThree ==
    (Derived /\ (~result.found \/ Len(result.path) < 2 \/ Len(result.path) >= 4)) =>
        Classified /\ derived = NoRelationship

\* The search has returned a path of four persons, whose first two hops are a
\* row of the table, and the path has been classified.
C15_Witness ==
    /\ Classified
    /\ relationships # <<>>
    /\ result.found
    /\ Len(result.path) = 4
    /\ RowOf(result.path) # <<>>
    /\ derived = NoRelationship

\* The path with the gender of its first person recorded as g
AsGender(path, g) ==
    Found([path.path EXCEPT ![1].person =
                Person(path.path[1].person.id, path.path[1].person.name, g)])

TableRows == { TableRow(k1, k2) : k1 \in HopKinds, k2 \in HopKinds } \ { <<>> }

-----------------------------------------------------------------------------
(* Two-hop chains, read from the relationships and without the labels *)

\* The relationships of one of the four kinds that join x and y
KinRels(x, y, ps, rels) ==
    { i \in DOMAIN rels :
        /\ Resolvable(rels[i], ps)
        /\ rels[i].type \in DirectRelationshipType
        /\ {rels[i].fromPersonId, rels[i].toPersonId} = {x, y} }

\* The persons one relationship away from both a and c
Between(a, c, ps, rels) ==
    { b \in Ids(ps) \ {a, c} : KinRels(a, b, ps, rels) # {} /\ KinRels(b, c, ps, rels) # {} }

\* The only shortest path from a to c has two hops, each along one relationship
OnlyTwoHops(a, c, ps, rels) ==
    /\ a # c
    /\ {a, c} \subseteq Ids(ps)
    /\ KinRels(a, c, ps, rels) = {}
    /\ Cardinality(Between(a, c, ps, rels)) = 1
    /\ \A b \in Between(a, c, ps, rels) :
          /\ Cardinality(KinRels(a, b, ps, rels)) = 1
          /\ Cardinality(KinRels(b, c, ps, rels)) = 1

\* The kind of the hop that leaves x along rel
KindFrom(x, rel) ==
    IF rel.type = SPOUSE THEN "spouse-of"
    ELSE IF rel.type = SIBLING THEN "sibling-of"
    ELSE IF rel.fromPersonId = x THEN "parent-of"
    ELSE "child-of"

\* The kind of the hop from x to y, where one relationship joins them
KindBetween(x, y, ps, rels) ==
    KindFrom(x, rels[CHOOSE i \in KinRels(x, y, ps, rels) : TRUE])

\* C17: where the only shortest path from A to C has two hops, through B, and
\* the kinds of the hops are a row of the table, the search from A to C
\* returns the path A, B, C and the classifier returns on it
\* '<A> is <term> of <C>.' with the term of the row for the gender of A.
C17_EndToEnd ==
    (Classified /\ OnlyTwoHops(startPersonId, endPersonId, people, relationships)) =>
        LET b == CHOOSE z \in Between(startPersonId, endPersonId, people, relationships) : TRUE
            row == TableRow(KindBetween(startPersonId, b, people, relationships),
                            KindBetween(b, endPersonId, people, relationships))
            A == FindPerson(people, startPersonId)
            C == FindPerson(people, endPersonId)
        IN  row # <<>> =>
                /\ result.found
                /\ [i \in DOMAIN result.path |-> result.path[i].person.id]
                      = <<startPersonId, b, endPersonId>>
                /\ derived = RelationshipText(A.name \o <<" ","i","s"," ">> \o RowTerm(row, A)
                                              \o <<" ","o","f"," ">> \o C.name \o <<".">>)

-----------------------------------------------------------------------------
(* Totality *)

\* A RelationshipPath: segments with a person and, at most, a label and a
\* relationship id
IsPath(path) ==
    \A i \in DOMAIN path :
        /\ "person" \in DOMAIN path[i]
        /\ DOMAIN path[i] \subseteq {"person", "relationshipToNext", "relationshipId"}

\* C18: no call raises an error; findRelationshipPath returns null or a path
\* and deriveComplexRelationship returns null or a text, also for a start or
\* end that is no person, relationships with a missing endpoint or from a
\* person to themselves or of a type outside the four kinds, unconnected
\* persons, and paths with segments without labels.
C18_Total ==
    /\ pc # "threw"
    /\ pc \in {"done", "classified"} =>
          result = Null \/ (result.found /\ result = Found(result.path) /\ IsPath(result.path))
    /\ Classified =>
          \/ derived = NoRelationship
          \/ derived.named /\ derived = RelationshipText(derived.text)
                /\ derived.text \in Seq({ derived.text[i] : i \in DOMAIN derived.text })

\* Both functions have returned null on a list that holds a relationship of
\* a type outside the four kinds.
C18_Witness ==
    /\ Classified
    /\ \E i \in DOMAIN relationships : relationships[i].type \notin DirectRelationshipType
    /\ result = Null
    /\ derived = NoRelationship

-----------------------------------------------------------------------------
(* Frame *)

\* The path that a step must queue for the neighbour with that id, made from
\* the path of the entry taken from the queue and from nothing else
PathTo(id) ==
    LET currentPath == Head(queue).currentPath
        n == Len(currentPath)
        list == adj[Head(queue).personId]
        first == list[FirstIndexTo(list, id)]
    IN  SubSeq(currentPath, 1, n - 1)
            \o << [person |-> currentPath[n].person,
                   relationshipToNext |-> first.relationshipLabel,
                   relationshipId |-> first.relationshipId],
                  [person |-> FindPerson(people, id)] >>

FrameStep ==
    /\ people' = people
    /\ relationships' = relationships
    /\ startPersonId' = startPersonId /\ endPersonId' = endPersonId
    /\ pc = "done" => result' = result
    /\ (pc' = "done" /\ result'.found) =>
          \A i \in DOMAIN result'.path :
              \E k \in DOMAIN people : result'.path[i].person = people[k]
    /\ (pc = "loop" /\ queue # <<>>) =>
          /\ SubSeq(queue', 1, Len(queue) - 1) = Tail(queue)
          /\ \A i \in DOMAIN Added : Added[i].currentPath = PathTo(Added[i].personId)

\* C19: no step of a call changes the people list, a person record, the
\* relationship list or a relationship record, the classifier leaves the path
\* as it is, the persons of a returned path are records of the people list,
\* and a step of the search leaves the waiting queue entries as they are and
\* queues for each neighbour the dequeued path extended for that neighbour
\* alone.
C19_Frame == [][FrameStep]_vars

\* Two entries wait in the queue whose paths were extended from the same
\* path, with different labels.
C19_Witness ==
    /\ pc = "loop"
    /\ \E i, j \in DOMAIN queue :
          LET p == queue[i].currentPath
              q == queue[j].currentPath
          IN  /\ i < j
              /\ Len(p) = Len(q)
              /\ Len(p) >= 2
              /\ p[Len(p) - 1].person = q[Len(q) - 1].person
              /\ p[Len(p) - 1].relationshipToNext # q[Len(q) - 1].relationshipToNext

-----------------------------------------------------------------------------
(* Determinism *)

\* What is left of a path when all is blanked but its length, its hop labels,
\* the name and gender of its first person and the name of its last person
Features(path) ==
    IF ~path.found THEN path
    ELSE LET p == path.path
             person(i) ==
                 IF i = 1
                 THEN IF "gender" \in DOMAIN p[i].person
                      THEN Person("", p[i].person.name, p[i].person.gender)
                      ELSE [id |-> "", name |-> p[i].person.name]
                 ELSE IF i = Len(p) THEN Person("", p[i].person.name, "unknown")
                 ELSE Person("", <<>>, "unknown")
         IN  Found([i \in DOMAIN p |->
                      IF "relationshipToNext" \in DOMAIN p[i]
                      THEN [person |-> person(i),
                            relationshipToNext |-> p[i].relationshipToNext,
                            relationshipId |-> ""]
                      ELSE [person |-> person(i)]])

DeterminedStep ==
    /\ (pc \in {"start", "loop"} /\ pc' = "done") =>
          result' = findRelationshipPath(startPersonId, endPersonId, people, relationships)
    /\ (pc = "done" /\ pc' = "classified") =>
          derived' = deriveComplexRelationship(Features(result), <<>>)

\* C20: the path a run of the search returns is the value of a function of
\* start, end, people list and relationship list, so that two runs on the same
\* arguments return the same path; the classification is the value of the
\* classifier on the length, hop labels, first name and gender and last name
\* of the path alone, with an empty allPeople.
C20_Deterministic == [][DeterminedStep]_vars

\* A path has been named while allPeople holds another name for its first
\* person.
C20_Witness ==
    /\ Classified
    /\ derived.named
    /\ \E k \in DOMAIN people :
          /\ people[k].id = result.path[1].person.id
          /\ people[k].name # result.path[1].person.name

-----------------------------------------------------------------------------
(* C21 *)

\* relationship ids that the segments of a path carry
LinksOn(path) ==
    { path[i].relationshipId :
        i \in { j \in DOMAIN path : "relationshipId" \in DOMAIN path[j] } }

\* C21: once handleHighlightPath has returned, the highlight is null for a
\* null or empty path; for any other path it holds exactly the ids of the
\* persons on the path and exactly the relationship ids its segments carry,
\* none for a path of one person.
C21_HighlightOfPath ==
    pc = "highlighted" =>
        IF ~result.found \/ result.path = <<>>
        THEN highlightedPathInfo = NoHighlight
        ELSE /\ highlightedPathInfo.set
             /\ \A id \in InitialIds \cup {"a", "b", "c"} \cup highlightedPathInfo.nodeIds :
                    id \in highlightedPathInfo.nodeIds
                        <=> \E i \in DOMAIN result.path : result.path[i].person.id = id
             /\ highlightedPathInfo.linkIds =
                    IF Len(result.path) = 1 THEN {} ELSE LinksOn(result.path)

\* a path of three persons found by the search has been highlighted: three
\* nodes and two links
C21_Witness ==
    /\ pc = "highlighted"
    /\ result.found
    /\ Len(result.path) = 3
    /\ people = INITIAL_PEOPLE
    /\ Cardinality(highlightedPathInfo.nodeIds) = 3
    /\ Cardinality(highlightedPathInfo.linkIds) = 2

-----------------------------------------------------------------------------
(* C22 *)

\* C22: in every state of the App, the fromPersonId and the toPersonId of
\* every stored relationship are ids of people in the people list.
C22_ReferentialIntegrity ==
    \A i \in DOMAIN relationships :
        /\ \E k \in DOMAIN people : people[k].id = relationships[i].fromPersonId
        /\ \E k \in DOMAIN people : people[k].id = relationships[i].toPersonId

-----------------------------------------------------------------------------
(* C23 *)

\* t is s without the elements at the indices in gone, in the order of s
IsRestOf(t, s, gone) ==
    /\ Len(t) = Len(s) - Cardinality(gone)
    /\ \A i \in DOMAIN s \ gone :
          t[i - Cardinality({ j \in gone : j < i })] = s[i]

\* positions of person p in a people list, of p's relationships in a list
AtPerson(ps, p) == { i \in DOMAIN ps : ps[i].id = p }
AtRelationshipsOf(rels, p) ==
    { i \in DOMAIN rels : rels[i].fromPersonId = p \/ rels[i].toPersonId = p }

\* a step that removes a person: a confirmed deletePerson
ConfirmedDeleteFrame ==
    people' # people =>
        \E p \in { people[i].id : i \in DOMAIN people } :
            /\ AtPerson(people, p) # {}
            /\ IsRestOf(people', people, AtPerson(people, p))
            /\ IsRestOf(relationships', relationships, AtRelationshipsOf(relationships, p))
            /\ ~isEditModalOpen'
            /\ editingPerson' = NoPerson

\* deletePerson declined, for any person, leaves what it found
DeclinedDeleteFrame ==
    \A p \in { people[i].id : i \in DOMAIN people } :
        LET call == deletePerson(people, relationships, highlightedPathInfo, editingPerson,
                                 isEditModalOpen, p, FALSE)
        IN  /\ call.people = people
            /\ call.relationships = relationships
            /\ call.highlightedPathInfo = highlightedPathInfo
            /\ call.editingPerson = editingPerson
            /\ call.isEditModalOpen = isEditModalOpen

\* C23: a confirmed deletePerson(p) leaves the other people and the
\* relationships that do not have p as fromPersonId or toPersonId, in their
\* order, removes p and p's relationships and closes the edit modal; a declined
\* one changes neither people, relationships, highlight nor modal state.
C23_DeletePersonFrame == [][ConfirmedDeleteFrame]_vars /\ []DeclinedDeleteFrame

\* the husband has been deleted with his marriage from the household of
\* three: the father, the daughter and their relationship are left
C23_Witness ==
    /\ Len(people) = 2
    /\ people = KeptPeople({"1", "4"})
    /\ relationships = KeptRelationships({"1", "4"})
    /\ Len(relationships) = 1
    /\ ~isEditModalOpen
    /\ highlightedPathInfo = NoHighlight

-----------------------------------------------------------------------------
(* C24, C25, C26: the checks of updateRelationship *)

\* ids of the listed relationships
RelationshipIds == { relationships[i].id : i \in DOMAIN relationships }

\* updateRelationship(id, from, to, type) called in this state
CallOf(id, from, to, type) ==
    updateRelationship(relationships, highlightedPathInfo, id, from, to, type)

\* the call returns false, sets an error and leaves relationships and highlight
Refused(call) ==
    /\ call.returned = FALSE
    /\ call.error # NoError
    /\ call.relationships = relationships
    /\ call.highlightedPathInfo = highlightedPathInfo

NoSelfRelationship(rels) == \A i \in DOMAIN rels : rels[i].fromPersonId # rels[i].toPersonId

\* C24: updateRelationship with fromPersonId = toPersonId returns false, sets
\* an error and leaves the relationship list and the highlight as they are;
\* neither the initial data nor any list reached by the handlers holds a
\* relationship from a person to themselves.
C24_SelfRejected ==
    /\ \A id \in RelationshipIds, p \in { people[i].id : i \in DOMAIN people },
          type \in DirectRelationshipType :
            /\ Refused(CallOf(id, p, p, type))
            /\ CallOf(id, p, p, type).error = SelfError
    /\ NoSelfRelationship(INITIAL_RELATIONSHIPS)
    /\ NoSelfRelationship(relationships)

\* an update of a person to themselves has been refused while a path was
\* highlighted
C24_Witness ==
    /\ error = SelfError
    /\ highlightedPathInfo.set
    /\ relationships = KeptRelationships({"1", "4", "5"})

\* relationships of the type that point at the child
ParentLinks(rels, child, type) ==
    { i \in DOMAIN rels : rels[i].toPersonId = child /\ rels[i].type = type }

OneFatherOneMother(rels) ==
    \A i \in DOMAIN rels : \A type \in {FATHER, MOTHER} :
        Cardinality(ParentLinks(rels, rels[i].toPersonId, type)) <= 1

\* the relationship id rewritten as asked would be a second FATHER or MOTHER
\* relationship of the child
SecondParent(id, to, type) ==
    /\ type \in {FATHER, MOTHER}
    /\ \E i \in DOMAIN relationships :
          /\ relationships[i].id # id
          /\ relationships[i].toPersonId = to
          /\ relationships[i].type = type

\* C25: in the initial data and in every list reached by updateRelationship,
\* deleteRelationship and deletePerson a person is the toPersonId of at most
\* one FATHER and at most one MOTHER relationship, and an update that would
\* give a child a second father or mother returns false and changes nothing.
C25_OneFatherOneMother ==
    /\ OneFatherOneMother(INITIAL_RELATIONSHIPS)
    /\ OneFatherOneMother(relationships)
    /\ \A id \in RelationshipIds, from \in { people[i].id : i \in DOMAIN people },
          to \in { people[i].id : i \in DOMAIN people }, type \in DirectRelationshipType :
            SecondParent(id, to, type) => Refused(CallOf(id, from, to, type))

\* the update that makes the husband a second father of the daughter has been
\* refused
C25_Witness ==
    /\ error = ParentError(FATHER)
    /\ relationships = KeptRelationships({"1", "4", "5"})
    /\ SecondParent("r6", "4", FATHER)

\* the same type and the same direction, or for SPOUSE and SIBLING the same
\* two persons in either direction
SameLink(r, fromPersonId, toPersonId, type) ==
    /\ r.type = type
    /\ \/ r.fromPersonId = fromPersonId /\ r.toPersonId = toPersonId
       \/ /\ type \in {SPOUSE, SIBLING}
          /\ r.fromPersonId = toPersonId /\ r.toPersonId = fromPersonId

NoDuplicates(rels) ==
    \A i \in DOMAIN rels : \A j \in DOMAIN rels \ {i} :
        ~SameLink(rels[i], rels[j].fromPersonId, rels[j].toPersonId, rels[j].type)

\* C26: in the initial data and in every list reached by updateRelationship,
\* deleteRelationship and deletePerson no two relationships have the same
\* type, from and to, and no two SPOUSE or two SIBLING relationships join the
\* same two persons; an update that would create such a pair returns false
\* and changes nothing.
C26_NoDuplicates ==
    /\ NoDuplicates(INITIAL_RELATIONSHIPS)
    /\ NoDuplicates(relationships)
    /\ \A id \in RelationshipIds, from \in { people[i].id : i \in DOMAIN people },
          to \in { people[i].id : i \in DOMAIN people }, type \in DirectRelationshipType :
            (\E i \in DOMAIN relationships :
                /\ relationships[i].id # id
                /\ SameLink(relationships[i], from, to, type))
                => Refused(CallOf(id, from, to, type))

\* an update that would repeat the marriage of the daughter and her husband,
\* in the same or the other direction, has been refused
C26_Witness ==
    /\ error = DuplicateError
    /\ relationships = KeptRelationships({"1", "4", "5"})
    /\ CallOf("r3", "5", "4", SPOUSE).error = DuplicateError

-----------------------------------------------------------------------------
(* C27 *)

\* a step that changes the relationship list or removes a person leaves no
\* highlight
ChangeClearsHighlight ==
    (\/ relationships' # relationships
     \/ \E i \in DOMAIN people : \A k \in DOMAIN people' : people'[k].id # people[i].id)
        => highlightedPathInfo' = NoHighlight

\* what is highlighted is there
HighlightIsCurrent ==
    highlightedPathInfo.set =>
        /\ \A id \in highlightedPathInfo.nodeIds :
              \E i \in DOMAIN people : people[i].id = id
        /\ \A id \in highlightedPathInfo.linkIds :
              \E i \in DOMAIN relationships : relationships[i].id = id

\* C27: every step that changes the relationship list or removes a person
\* sets the highlight to null, and in every state with a highlight each
\* highlighted node id is the id of a person of the people list and each
\* highlighted link id the id of a relationship of the relationship list.
C27_HighlightCurrent == [][ChangeClearsHighlight]_vars /\ []HighlightIsCurrent

-----------------------------------------------------------------------------
(* C28 *)

\* C28: whenever the finder displays a found path, the path starts at the
\* person selected as Person A and ends at the person selected as Person B.
C28_PathOfSelection ==
    (foundPath.found /\ Len(foundPath.path) > 0) =>
        /\ foundPath.path[1].person.id = personAId
        /\ foundPath.path[Len(foundPath.path)].person.id = personBId

-----------------------------------------------------------------------------
(* C29 *)

\* The terms of the table in converse pairs: a family and its converse
TermFamilies ==
    << {Grandfather, Grandmother, Grandparent}, {Grandson, Granddaughter, Grandchild},
       {FatherInLaw, MotherInLaw, ParentInLaw}, {SonInLaw, DaughterInLaw, ChildInLaw},
       {Uncle, Aunt, AuntUncle}, {Nephew, Niece, NephewNiece} >>

ConverseFamily(k) == IF k % 2 = 1 THEN k + 1 ELSE k - 1

\* the families a sentence about the ends of the path takes its term from
FamiliesOf(value, path) ==
    { k \in DOMAIN TermFamilies : \E term \in TermFamilies[k] : value = Named(path, term) }

\* the path that the search finds from the end back to the start
PathBack == findRelationshipPath(endPersonId, startPersonId, people, relationships)

\* back is the path walked backwards: the same persons and the same
\* relationships, with the labels the builder writes for that direction
Reversed(path, back) ==
    /\ back.found
    /\ Len(back.path) = Len(path)
    /\ \A i \in DOMAIN path : back.path[i].person = path[Len(path) + 1 - i].person
    /\ \A i \in 1..(Len(path) - 1) :
          back.path[i].relationshipId = path[Len(path) - i].relationshipId

\* C29: a three-person path with the builder's labels is named exactly if the
\* path walked backwards is named, and the two terms are then a converse pair
\* (grandparent / grandchild, parent-in-law / child-in-law, aunt-uncle /
\* nephew-niece).
C29_ReversalClosed ==
    (ThreePersons /\ Reversed(result.path, PathBack)) =>
        LET back == deriveComplexRelationship(PathBack, people) IN
        /\ derived.named <=> back.named
        /\ derived.named =>
              \E k \in FamiliesOf(derived, result.path) :
                  ConverseFamily(k) \in FamiliesOf(back, PathBack.path)

-----------------------------------------------------------------------------
(* C30 *)

\* Other orderings of a list: the list backwards, and the list with its first
\* element moved to the end (both orderings of a list of two)
Orderings(s) ==
    { [k \in DOMAIN s |-> s[Len(s) + 1 - k]],
      [k \in DOMAIN s |-> s[(k % Len(s)) + 1]] }

\* the search and the classifier on the same people with the list reordered
PathWith(rels) == findRelationshipPath(startPersonId, endPersonId, people, rels)

\* the classifier has returned on the outcome of the search for the pair
Searched ==
    /\ Classified
    /\ result = findRelationshipPath(startPersonId, endPersonId, people, relationships)

\* relationship ids along a path
LinkSequence(path) ==
    [i \in 1..(Len(path) - 1) |->
        IF "relationshipId" \in DOMAIN path[i] THEN path[i].relationshipId ELSE ""]

\* C30: the term that the classifier gives the path found is the same for
\* every ordering of the relationship list.
C30_OrderIndependent ==
    Searched =>
        \A rels \in Orderings(relationships) :
            deriveComplexRelationship(PathWith(rels), people) = derived

\* C30, amended: for every ordering of the relationship list a path is found
\* or not alike and has the same number of segments, and the term is the same
\* whenever the search goes over the same relationships; the term itself may
\* differ between orderings.
C30_OrderUpToPath ==
    Searched =>
        \A rels \in Orderings(relationships) :
            /\ PathWith(rels).found = result.found
            /\ result.found =>
                  /\ Len(PathWith(rels).path) = Len(result.path)
                  /\ LinkSequence(PathWith(rels).path) = LinkSequence(result.path)
                        => deriveComplexRelationship(PathWith(rels), people) = derived

\* a pair joined by two relationships is named after the one listed first:
\* the other ordering gives another sentence for a path of the same length
C30_Witness ==
    /\ Searched
    /\ result.found
    /\ derived.named
    /\ \E rels \in Orderings(relationships) :
          /\ deriveComplexRelationship(PathWith(rels), people).named
          /\ deriveComplexRelationship(PathWith(rels), people) # derived
          /\ Len(PathWith(rels).path) = Len(result.path)

=============================================================================
